---- MODULE Spec2Model ----
(***************************************************************************)
(* Model of the Echo-iOS localization tool set: the .strings parser, the   *)
(* two synchronizers (sync_localization_keys.py and the sync command of    *)
(* localization_manager.py) and the two duplicate removers                 *)
(* (remove_duplicate_keys.py and the clean command of                      *)
(* localization_manager.py).                                               *)
(*                                                                         *)
(* A file is the sequence of its characters (each a one-character string), *)
(* a line is a sequence of characters that keeps its line end, as          *)
(* readlines() returns it.  The regular expressions are evaluated on the   *)
(* characters.                                                             *)
(***************************************************************************)
EXTENDS Integers, Sequences, FiniteSets, TLC

VARIABLES
    files,      \* locale -> content of <locale>.lproj/Localizable.strings, or NoFile
    before,     \* files as they were when the last command started
    op,         \* the last command that ran
    prevOp,     \* the command that ran before it
    out,        \* locale -> what the last command computed for that locale
    exit_status, \* the exit status of the last command
    sources,    \* Swift file -> its content
    findings,   \* the hardcoded strings the last audit found
    report_files, \* audit command -> content of the report file it writes, or NoFile
    recommended_keys, \* the recommended_keys of the report of find_all_hardcoded_strings.py
    created_files  \* content of the Localizable.strings of every language of create_localizations.py

vars == <<files, before, op, prevOp, out, exit_status, sources, findings, report_files,
          recommended_keys, created_files>>

----------------------------------------------------------------------------
(* Characters and strings *)

QT == "\""
NL == "\n"
SP == " "

\* The characters str.strip(), str.rstrip() and the regex class \s take for
\* white space, among the characters of the modelled files.
Whitespace == {SP, NL}

\* The file of a locale directory that holds no Localizable.strings
\* (os.path.exists is false).
NoFile == <<"<no file>">>

\* Python's None for current_section; a section text is never empty, so the
\* empty sequence stands for None (both are falsy in `if master_info['section']`).
None == <<>>

Min(S) == CHOOSE x \in S : \A y \in S : x <= y
Max(S) == CHOOSE x \in S : \A y \in S : x >= y

startswith(s, p) ==
    /\ Len(s) >= Len(p)
    /\ SubSeq(s, 1, Len(p)) = p

rstrip(s) ==
    LET keep == {i \in 1..Len(s) : s[i] \notin Whitespace}
    IN IF keep = {} THEN <<>> ELSE SubSeq(s, 1, Max(keep))

lstrip(s) ==
    LET keep == {i \in 1..Len(s) : s[i] \notin Whitespace}
    IN IF keep = {} THEN <<>> ELSE SubSeq(s, Min(keep), Len(s))

strip(s) == lstrip(rstrip(s))

\* f.readlines(): the content cut after every line end, line ends kept.
RECURSIVE readlines(_)
readlines(content) ==
    IF content = <<>> THEN <<>>
    ELSE LET ends == {i \in 1..Len(content) : content[i] = NL}
             cut == IF ends = {} THEN Len(content) ELSE Min(ends)
         IN <<SubSeq(content, 1, cut)>>
                \o readlines(SubSeq(content, cut + 1, Len(content)))

\* f.writelines(lines): the lines one after the other, nothing added.
RECURSIVE writelines(_)
writelines(lines) ==
    IF lines = <<>> THEN <<>> ELSE Head(lines) \o writelines(Tail(lines))

\* NL.join(lines)
RECURSIVE join(_)
join(lines) ==
    IF lines = <<>> THEN <<>>
    ELSE IF Len(lines) = 1 THEN Head(lines)
    ELSE Head(lines) \o <<NL>> \o join(Tail(lines))

----------------------------------------------------------------------------
(* The entry grammar of the parsers, a quoted key, an equals sign, a quoted *)
(* value and a semicolon, applied to one line with re.match.               *)

NoMatch == [ok |-> FALSE, key |-> <<>>, value |-> <<>>, end |-> 0]

\* First position >= i that is past the line or holds no white space (\s*).
SkipWs(line, i) ==
    Min({j \in i..(Len(line) + 1) : j > Len(line) \/ line[j] \notin Whitespace})

\* The value group (.*) is greedy: the value ends at the last quote followed
\* by a semicolon that it can reach without crossing a line end (a dot
\* matches no line end).
LastClose(line, from) ==
    LET cand == {j \in from..(Len(line) - 1) :
                    /\ line[j] = QT
                    /\ line[j + 1] = ";"
                    /\ \A k \in from..(j - 1) : line[k] # NL}
    IN IF cand = {} THEN 0 ELSE Max(cand)

entry_re(line) ==
    IF Len(line) < 1 \/ line[1] # QT THEN NoMatch
    ELSE LET quotes == {j \in 2..Len(line) : line[j] = QT}
         IN IF quotes = {} \/ Min(quotes) = 2 THEN NoMatch
            ELSE LET kq == Min(quotes)
                     eq == SkipWs(line, kq + 1)
                 IN IF eq > Len(line) \/ line[eq] # "=" THEN NoMatch
                    ELSE LET vq == SkipWs(line, eq + 1)
                         IN IF vq > Len(line) \/ line[vq] # QT THEN NoMatch
                            ELSE LET close == LastClose(line, vq + 1)
                                 IN IF close = 0 THEN NoMatch
                                    ELSE [ok |-> TRUE,
                                          key |-> SubSeq(line, 2, kq - 1),
                                          value |-> SubSeq(line, vq + 1, close - 1),
                                          end |-> close + 1]

----------------------------------------------------------------------------
(* parse_localization_file *)

MARK_PREFIX == <<"/", "/", " ", "M", "A", "R", "K", ":">>

\* keys[key] = info on an OrderedDict: a new key goes to the end, a key
\* already there keeps its place and gets the new info.
DictSet(keys, key, info) ==
    LET at == {j \in 1..Len(keys) : keys[j].key = key}
        item == [key |-> key, value |-> info.value, section |-> info.section,
                 line |-> info.line]
    IN IF at = {} THEN Append(keys, item)
       ELSE [keys EXCEPT ![Min(at)] = item]

RECURSIVE parse_loop(_, _, _, _)
parse_loop(lines, i, current_section, keys) ==
    IF i > Len(lines) THEN keys
    ELSE LET line == lines[i]
             section == IF startswith(strip(line), MARK_PREFIX)
                        THEN strip(line) ELSE current_section
             match == entry_re(line)
         IN parse_loop(lines, i + 1, section,
                IF match.ok
                THEN DictSet(keys, match.key,
                             [value |-> match.value, section |-> section,
                              line |-> i - 1])
                ELSE keys)

\* Returns the ordered dict as the sequence of its items, in key order.
parse_localization_file(content) ==
    IF content = NoFile THEN <<>>
    ELSE parse_loop(readlines(content), 1, None, <<>>)

KeysOf(keys) == {keys[j].key : j \in 1..Len(keys)}

KeyList(keys) == [j \in 1..Len(keys) |-> keys[j].key]

InfoOf(keys, key) == keys[CHOOSE j \in 1..Len(keys) : keys[j].key = key]

\* LocalizationManager.parse_localization_file is the same loop, statement for
\* statement, as the script's parse_localization_file.
manager_parse_localization_file(content) ==
    IF content = NoFile THEN <<>>
    ELSE parse_loop(readlines(content), 1, None, <<>>)

----------------------------------------------------------------------------
(* Locales *)

\* The master locale, and the other locales in the order both sync commands
\* walk them (two of the nineteen, fr before de as in the source lists).
MASTER == "en"
LANGS == <<"fr", "de">>
Locales == {MASTER} \cup {LANGS[i] : i \in 1..Len(LANGS)}

----------------------------------------------------------------------------
(* get_translation_for_key: the lookup table, for the modelled locales *)

KEY_TAG_SEARCH == <<"t", "a", "g", ".", "s", "e", "a", "r", "c", "h", ".", "p", "l", "a", "c", "e", "h", "o", "l", "d", "e", "r">>
KEY_TAG_NAME == <<"t", "a", "g", ".", "n", "a", "m", "e", ".", "p", "l", "a", "c", "e", "h", "o", "l", "d", "e", "r">>

placeholders(key, lang_code) ==
    IF key = KEY_TAG_SEARCH /\ lang_code = "fr" THEN <<"R", "e", "c", "h", "e", "r", "c", "h", "e", "r", " ", "d", "e", "s", " ", "t", "a", "g", "s", ".", ".", ".">>
    ELSE IF key = KEY_TAG_SEARCH /\ lang_code = "de" THEN <<"T", "a", "g", "s", " ", "s", "u", "c", "h", "e", "n", ".", ".", ".">>
    ELSE IF key = KEY_TAG_NAME /\ lang_code = "fr" THEN <<"N", "o", "m", " ", "d", "u", " ", "t", "a", "g">>
    ELSE IF key = KEY_TAG_NAME /\ lang_code = "de" THEN <<"T", "a", "g", "-", "N", "a", "m", "e">>
    ELSE None

HasTranslation(key, lang_code) == placeholders(key, lang_code) # None

\* The English value whatever the table holds.
get_translation_english(key, lang_code, english_value) == english_value

get_translation_for_key(key, lang_code, english_value) ==
    IF HasTranslation(key, lang_code) THEN placeholders(key, lang_code)
    ELSE english_value

----------------------------------------------------------------------------
(* The entry line both sync commands write: the quoted key, space, equals, *)
(* space, the quoted value, semicolon.                                    *)

\* The entry line without its closing semicolon.
format_entry_no_semicolon(key, value) ==
    <<QT>> \o key \o <<QT, SP, "=", SP, QT>> \o value \o <<QT>>

format_entry(key, value) ==
    <<QT>> \o key \o <<QT, SP, "=", SP, QT>> \o value \o <<QT, ";">>

----------------------------------------------------------------------------
(* What a command reports for one locale *)

OutNone ==
    [status |-> "none", missing |-> <<>>, additions |-> <<>>,
     wrote |-> FALSE, removed |-> 0, keys |-> <<>>, issues |-> <<>>,
     reparsed |-> <<>>]

----------------------------------------------------------------------------
(* sync_localization_keys.py *)

\* The lines put before an appended key: a blank line and the section text
\* when the key's master section differs from current_section and is truthy.
section_header(section, current_section) ==
    IF section # current_section /\ section # None
    THEN <<<<>>, section>>
    ELSE <<>>

RECURSIVE build_additions(_, _, _, _, _)
build_additions(missing_keys, i, current_section, master_keys, lang_code) ==
    IF i > Len(missing_keys) THEN <<>>
    ELSE LET key == missing_keys[i]
             master_info == InfoOf(master_keys, key)
             translated_value ==
                 get_translation_for_key(key, lang_code, master_info.value)
         IN section_header(master_info.section, current_section)
                \o <<format_entry(key, translated_value)>>
                \o build_additions(missing_keys, i + 1, master_info.section,
                                   master_keys, lang_code)

\* The content stripped at both ends instead of at its end.
append_content_strip(content, additions) ==
    strip(content) \o <<NL>> \o join(additions) \o <<NL>>

\* content.rstrip(), then a line end, the additions joined, a line end.
append_content(content, additions) ==
    rstrip(content) \o <<NL>> \o join(additions) \o <<NL>>

\* The missing keys listed twice over.
missing_in_order_twice(master_keys, existing_keys) ==
    SelectSeq(KeyList(master_keys) \o KeyList(master_keys),
              LAMBDA key : key \notin KeysOf(existing_keys))

\* The master keys, in the master's key order, that the target lacks.
missing_in_order(master_keys, existing_keys) ==
    SelectSeq(KeyList(master_keys), LAMBDA key : key \notin KeysOf(existing_keys))

\* One call; content is the locale's file (NoFile when it does not exist).
\* open() of a file that does not exist raises FileNotFoundError, which
\* nothing catches.
update_language_file(lang_code, master_keys, content) ==
    LET existing_keys == parse_localization_file(content)
        missing_keys == missing_in_order(master_keys, existing_keys)
        additions == build_additions(missing_keys, 1, None, master_keys, lang_code)
    IN IF missing_keys = <<>>
       THEN [content |-> content,
             report |-> [OutNone EXCEPT !.status = "all present"]]
       ELSE IF content = NoFile
       THEN [content |-> content,
             report |-> [OutNone EXCEPT !.status = "FileNotFoundError",
                                        !.missing = missing_keys]]
       ELSE IF additions # <<>>
       THEN [content |-> append_content(content, additions),
             report |-> [OutNone EXCEPT !.status = "added",
                                        !.missing = missing_keys,
                                        !.additions = additions,
                                        !.wrote = TRUE]]
       ELSE [content |-> content,
             report |-> [OutNone EXCEPT !.status = "added",
                                        !.missing = missing_keys]]

\* main(): the master is parsed once, then the locales are updated in list
\* order; an exception ends the run, the locales after it are not reached.
RECURSIVE sync_main_loop(_, _, _, _)
sync_main_loop(i, master_keys, fs, reports) ==
    IF i > Len(LANGS) THEN [files |-> fs, out |-> reports, exit |-> 0]
    ELSE LET lang == LANGS[i]
             r == update_language_file(lang, master_keys, fs[lang])
             fs2 == [fs EXCEPT ![lang] = r.content]
             reports2 == [reports EXCEPT ![lang] = r.report]
         IN IF r.report.status = "FileNotFoundError"
            THEN [files |-> fs2, out |-> reports2, exit |-> 1]
            ELSE sync_main_loop(i + 1, master_keys, fs2, reports2)

sync_main(fs) ==
    sync_main_loop(1, parse_localization_file(fs[MASTER]), fs,
                   [l \in Locales |-> OutNone])

----------------------------------------------------------------------------
(* localization_manager.py, command sync *)

\* The characters of the files in the order of their code points, by which
\* Python compares str values.
CharsAscending ==
    <<" ", "!", "\"", "#", "$", "%", "&", "'", "(", ")", "*", "+",
      ",", "-", ".", "/", "0", "1", "2", "3", "4", "5", "6", "7",
      "8", "9", ":", ";", "<", "=", ">", "?", "@", "A", "B", "C",
      "D", "E", "F", "G", "H", "I", "J", "K", "L", "M", "N", "O",
      "P", "Q", "R", "S", "T", "U", "V", "W", "X", "Y", "Z", "[",
      "\\", "]", "^", "_", "a", "b", "c", "d", "e", "f", "g",
      "h", "i", "j", "k", "l", "m", "n", "o", "p", "q", "r", "s",
      "t", "u", "v", "w", "x", "y", "z", "{", "|", "}", "~">>

ord(c) == CHOOSE i \in 1..Len(CharsAscending) : CharsAscending[i] = c

RECURSIVE str_less(_, _)
str_less(s, t) ==
    IF t = <<>> THEN FALSE
    ELSE IF s = <<>> THEN TRUE
    ELSE IF Head(s) = Head(t) THEN str_less(Tail(s), Tail(t))
    ELSE ord(Head(s)) < ord(Head(t))

RECURSIVE sorted(_)
sorted(S) ==
    IF S = {} THEN <<>>
    ELSE LET least == CHOOSE x \in S : \A y \in S \ {x} : str_less(x, y)
         IN <<least>> \o sorted(S \ {least})

manager_section_header(section, current_section) ==
    IF section # current_section /\ section # None
    THEN <<<<>>, section>>
    ELSE <<>>

RECURSIVE manager_build_additions(_, _, _, _)
manager_build_additions(missing_keys, i, current_section, master_keys) ==
    IF i > Len(missing_keys) THEN <<>>
    ELSE LET key == missing_keys[i]
             master_info == InfoOf(master_keys, key)
         IN manager_section_header(master_info.section, current_section)
                \o <<format_entry(key, master_info.value)>>
                \o manager_build_additions(missing_keys, i + 1,
                                           master_info.section, master_keys)

\* The file written with the additions alone.
manager_append_content_replacing(content, additions) ==
    join(additions) \o <<NL>>

manager_append_content(content, additions) ==
    rstrip(content) \o <<NL>> \o join(additions) \o <<NL>>

\* The body of the loop of sync_with_master for one locale.
sync_one_language(master_keys, content) ==
    LET lang_keys == manager_parse_localization_file(content)
        missing == KeysOf(master_keys) \ KeysOf(lang_keys)
        additions == manager_build_additions(sorted(missing), 1, None, master_keys)
    IN IF lang_keys = <<>>
       THEN [content |-> content,
             report |-> [OutNone EXCEPT !.status = "skipped (file not found)"]]
       ELSE IF missing = {}
       THEN [content |-> content,
             report |-> [OutNone EXCEPT !.status = "already in sync"]]
       ELSE IF additions # <<>>
       THEN [content |-> manager_append_content(content, additions),
             report |-> [OutNone EXCEPT !.status = "added",
                                        !.missing = sorted(missing),
                                        !.additions = additions,
                                        !.wrote = TRUE]]
       ELSE [content |-> content,
             report |-> [OutNone EXCEPT !.status = "added",
                                        !.missing = sorted(missing)]]

sync_with_master(fs) ==
    LET master_keys == manager_parse_localization_file(fs[MASTER])
        r == [l \in Locales \ {MASTER} |-> sync_one_language(master_keys, fs[l])]
    IN [files |-> [l \in Locales |-> IF l = MASTER THEN fs[l] ELSE r[l].content],
        out |-> [l \in Locales |-> IF l = MASTER THEN OutNone ELSE r[l].report]]

----------------------------------------------------------------------------
(* remove_duplicate_keys.py and localization_manager.py, command clean *)

\* The duplicate removers match the entry grammar without the value group;
\* the match and the key are those of entry_re.
\* The grammar with exactly one space on each side of the equals sign.
dup_re_one_space(line) ==
    LET m == entry_re(line)
        kq == Len(m.key) + 2
    IN IF m.ok /\ Len(line) >= kq + 4
          /\ SubSeq(line, kq + 1, kq + 4) = <<SP, "=", SP, QT>>
       THEN [ok |-> TRUE, key |-> m.key]
       ELSE [ok |-> FALSE, key |-> <<>>]

dup_re(line) ==
    LET m == entry_re(line) IN [ok |-> m.ok, key |-> m.key]

\* The loop with the key added to seen_keys before it is looked up: every
\* entry line counts as a duplicate.
RECURSIVE dedup_loop_add_first(_, _, _, _, _)
dedup_loop_add_first(lines, i, seen_keys, new_lines, removed_count) ==
    IF i > Len(lines) THEN [new_lines |-> new_lines, removed_count |-> removed_count]
    ELSE IF dup_re(lines[i]).ok
    THEN dedup_loop_add_first(lines, i + 1, seen_keys, new_lines, removed_count + 1)
    ELSE dedup_loop_add_first(lines, i + 1, seen_keys, Append(new_lines, lines[i]),
                              removed_count)

\* The loop with seen_keys emptied when a duplicate is skipped.
RECURSIVE dedup_loop_reset(_, _, _, _, _)
dedup_loop_reset(lines, i, seen_keys, new_lines, removed_count) ==
    IF i > Len(lines) THEN [new_lines |-> new_lines, removed_count |-> removed_count]
    ELSE LET line == lines[i]
             match == dup_re(line)
         IN IF match.ok /\ match.key \in seen_keys
            THEN dedup_loop_reset(lines, i + 1, {}, new_lines, removed_count + 1)
            ELSE dedup_loop_reset(lines, i + 1,
                                  IF match.ok THEN seen_keys \cup {match.key}
                                  ELSE seen_keys,
                                  Append(new_lines, line), removed_count)

RECURSIVE dedup_loop(_, _, _, _, _)
dedup_loop(lines, i, seen_keys, new_lines, removed_count) ==
    IF i > Len(lines) THEN [new_lines |-> new_lines, removed_count |-> removed_count]
    ELSE LET line == lines[i]
             match == dup_re(line)
         IN IF match.ok /\ match.key \in seen_keys
            THEN dedup_loop(lines, i + 1, seen_keys, new_lines, removed_count + 1)
            ELSE dedup_loop(lines, i + 1,
                            IF match.ok THEN seen_keys \cup {match.key} ELSE seen_keys,
                            Append(new_lines, line), removed_count)

\* The file is written only when a line was removed.
remove_duplicate_keys(content) ==
    LET r == dedup_loop(readlines(content), 1, {}, <<>>, 0)
    IN IF r.removed_count > 0
       THEN [content |-> writelines(r.new_lines),
             report |-> [OutNone EXCEPT !.status = "removed",
                                        !.removed = r.removed_count,
                                        !.wrote = TRUE]]
       ELSE [content |-> content,
             report |-> [OutNone EXCEPT !.status = "no duplicates"]]

\* main() of remove_duplicate_keys.py: every locale directory whose file exists.
dedup_main(fs) ==
    LET r == [l \in Locales |->
                 IF fs[l] = NoFile THEN [content |-> NoFile, report |-> OutNone]
                 ELSE remove_duplicate_keys(fs[l])]
    IN [files |-> [l \in Locales |-> r[l].content],
        out |-> [l \in Locales |-> r[l].report]]

\* LocalizationManager.remove_duplicates: the same loop, in the method's body,
\* over every language of LANGUAGES whose file exists.
manager_remove_one(content) ==
    LET r == dedup_loop(readlines(content), 1, {}, <<>>, 0)
    IN IF r.removed_count > 0
       THEN [content |-> writelines(r.new_lines),
             report |-> [OutNone EXCEPT !.status = "removed",
                                        !.removed = r.removed_count,
                                        !.wrote = TRUE]]
       ELSE [content |-> content,
             report |-> [OutNone EXCEPT !.status = "no duplicates"]]

remove_duplicates(fs) ==
    LET r == [l \in Locales |->
                 IF fs[l] = NoFile THEN [content |-> NoFile, report |-> OutNone]
                 ELSE manager_remove_one(fs[l])]
    IN [files |-> [l \in Locales |-> r[l].content],
        out |-> [l \in Locales |-> r[l].report]]

----------------------------------------------------------------------------
(* check_localizations.py: the checker *)

\* sub in s
Contains(s, sub) ==
    \E i \in 0..(Len(s) - Len(sub)) : SubSeq(s, i + 1, i + Len(sub)) = sub

\* The checker's entry grammar: the parsers' grammar closed by an end of
\* string, matched against the stripped line.  The value runs to the quote
\* and semicolon that end the string.
check_re(stripped) ==
    IF Len(stripped) < 1 \/ stripped[1] # QT THEN NoMatch
    ELSE LET quotes == {j \in 2..Len(stripped) : stripped[j] = QT}
         IN IF quotes = {} \/ Min(quotes) = 2 THEN NoMatch
            ELSE LET kq == Min(quotes)
                     eq == SkipWs(stripped, kq + 1)
                 IN IF eq > Len(stripped) \/ stripped[eq] # "=" THEN NoMatch
                    ELSE LET vq == SkipWs(stripped, eq + 1)
                             n == Len(stripped)
                         IN IF vq > n \/ stripped[vq] # QT THEN NoMatch
                            ELSE IF /\ n - 1 > vq
                                    /\ stripped[n - 1] = QT
                                    /\ stripped[n] = ";"
                                    /\ \A k \in (vq + 1)..(n - 2) : stripped[k] # NL
                                 THEN [ok |-> TRUE,
                                       key |-> SubSeq(stripped, 2, kq - 1),
                                       value |-> SubSeq(stripped, vq + 1, n - 2),
                                       end |-> n]
                                 ELSE NoMatch

english_indicators ==
    {<<"C", "l", "e", "a", "r", " ", "i", "C", "l", "o", "u", "d", " ", "D", "a", "t", "a">>,
     <<"C", "l", "e", "a", "r", " ", "A", "l", "l", " ", "L", "o", "c", "a", "l", " ", "D", "a", "t", "a">>,
     <<"R", "e", "m", "o", "v", "e", " ", "D", "u", "p", "l", "i", "c", "a", "t", "e">>,
     <<"D", "e", "v", "e", "l", "o", "p", "e", "r", " ", "T", "o", "o", "l", "s">>,
     <<"O", "p", "e", "r", "a", "t", "i", "o", "n", " ", "C", "o", "m", "p", "l", "e", "t", "e">>,
     <<"V", "a", "l", "i", "d", "a", "t", "i", "o", "n", " ", "E", "r", "r", "o", "r">>,
     <<"P", "r", "o", "c", "e", "s", "s", "i", "n", "g">>,
     <<"S", "t", "o", "p", "p", "i", "n", "g", " ", "r", "e", "c", "o", "r", "d", "i", "n", "g">>,
     <<"S", "e", "a", "r", "c", "h", " ", "t", "a", "g", "s", ".", ".", ".">>,
     <<"T", "a", "g", " ", "n", "a", "m", "e">>,
     <<"N", "e", "w", " ", "T", "a", "g">>,
     <<"C", "a", "n", "c", "e", "l">>,
     <<"A", "d", "d">>,
     <<"R", "e", "m", "o", "v", "e">>}

\* duplicates[key].append(line_num) on a defaultdict(list): a key not yet
\* there is entered with an empty list first.
DefaultAppend(duplicates, key, line_num) ==
    LET at == {j \in 1..Len(duplicates) : duplicates[j].key = key}
    IN IF at = {} THEN Append(duplicates, [key |-> key, lines |-> <<line_num>>])
       ELSE [duplicates EXCEPT ![Min(at)].lines = Append(@, line_num)]

\* One pass of the loop body: the dictionaries and the issues after the line.
check_line(line, i, lang_code, keys, duplicates, issues) ==
    LET stripped == strip(line)
        match == check_re(stripped)
        same == [keys |-> keys, duplicates |-> duplicates, issues |-> issues]
    IN IF \/ stripped = <<>>
          \/ startswith(stripped, <<"/", "/">>)
          \/ startswith(stripped, <<"/", "*">>)
       THEN same
       ELSE IF match.ok
       THEN LET seen == match.key \in KeysOf(keys)
                appended == IF seen
                            THEN DefaultAppend(duplicates, match.key, i)
                            ELSE duplicates
                \* if key not in duplicates, after the append above
                with_first == IF seen /\ match.key \notin KeysOf(appended)
                              THEN DefaultAppend(appended, match.key,
                                                 InfoOf(keys, match.key).line)
                              ELSE appended
                untranslated ==
                    /\ lang_code \notin {"en", "en-US"}
                    /\ \E indicator \in english_indicators :
                           Contains(match.value, indicator)
                    /\ \A j \in 1..Len(match.value) :
                           match.value[j] \notin {"%", "@"}
            IN [keys |-> IF seen THEN keys
                         ELSE Append(keys, [key |-> match.key,
                                            value |-> match.value, line |-> i]),
                duplicates |-> with_first,
                issues |-> IF untranslated
                           THEN Append(issues, [kind |-> "untranslated",
                                                line |-> i, key |-> match.key])
                           ELSE issues]
       ELSE IF /\ ~startswith(stripped, <<"*", "/">>)
               /\ "=" \in {stripped[j] : j \in 1..Len(stripped)}
       THEN [same EXCEPT !.issues = Append(issues, [kind |-> "invalid format",
                                                    line |-> i, key |-> <<>>])]
       ELSE same

\* The loop that ends at the first line it reports for its format.
RECURSIVE check_loop_stopping(_, _, _, _, _, _)
check_loop_stopping(lines, i, lang_code, keys, duplicates, issues) ==
    IF i > Len(lines)
    THEN [keys |-> keys, duplicates |-> duplicates, issues |-> issues]
    ELSE CHOOSE result \in
             {IF /\ Len(r.issues) > Len(issues)
                 /\ r.issues[Len(r.issues)].kind = "invalid format"
              THEN r
              ELSE check_loop_stopping(lines, i + 1, lang_code, r.keys,
                                       r.duplicates, r.issues) :
                 r \in {check_line(lines[i], i, lang_code, keys, duplicates, issues)}} :
             TRUE

RECURSIVE check_loop(_, _, _, _, _, _)
check_loop(lines, i, lang_code, keys, duplicates, issues) ==
    IF i > Len(lines)
    THEN [keys |-> keys, duplicates |-> duplicates, issues |-> issues]
    ELSE \* r is the state after line i, computed once
         CHOOSE result \in
             {check_loop(lines, i + 1, lang_code, r.keys, r.duplicates, r.issues) :
                 r \in {check_line(lines[i], i, lang_code, keys, duplicates, issues)}} :
             TRUE

\* The report of the duplicates: the keys whose list holds more than one line.
report_duplicates(duplicates) ==
    LET listed == SelectSeq(duplicates, LAMBDA d : Len(d.lines) > 1)
    IN [j \in 1..Len(listed) |->
            [kind |-> "duplicate", line |-> listed[j].lines, key |-> listed[j].key]]

\* Returns (keys, issues); found is false where the code returns None for keys.
check_localization_file(content, lang_code) ==
    IF content = NoFile
    THEN [found |-> FALSE, keys |-> <<>>,
          issues |-> <<[kind |-> "file not found", line |-> 0, key |-> <<>>]>>]
    ELSE LET r == check_loop(readlines(content), 1, lang_code, <<>>, <<>>, <<>>)
         IN [found |-> TRUE, keys |-> r.keys,
             issues |-> r.issues \o report_duplicates(r.duplicates)]

compare_with_master(master_keys, lang_keys) ==
    LET missing_keys == KeysOf(master_keys) \ KeysOf(lang_keys)
        extra_keys == KeysOf(lang_keys) \ KeysOf(master_keys)
    IN (IF missing_keys # {}
        THEN <<[kind |-> "missing", line |-> 0, key |-> missing_keys]>>
        ELSE <<>>)
       \o (IF extra_keys # {}
           THEN <<[kind |-> "extra", line |-> 0, key |-> extra_keys]>>
           ELSE <<>>)

\* The loop body of main for one language; r is what check_localization_file
\* returned for its file.
check_one_language(master_keys, r) ==
    LET all_issues == r.issues \o compare_with_master(master_keys, r.keys)
    IN IF ~r.found
       THEN [OutNone EXCEPT !.status = "FILE NOT FOUND"]
       ELSE [OutNone EXCEPT !.status = IF all_issues = <<>> THEN "OK" ELSE "issues",
                            !.keys = r.keys,
                            !.issues = all_issues]

\* main: it never calls sys.exit, so the exit status is 0 unless an exception
\* ends the run: len(master_keys) on None when the master file is absent, and
\* key_counts[0] on an empty summary when no language file was found.
\* The end of main: the summary over the languages whose file was found.
check_summary(fs, checked, reports) ==
    LET summary == {l \in Locales \ {MASTER} : reports[l].status # "FILE NOT FOUND"}
    IN IF ~checked[MASTER].found
       THEN [files |-> fs,
             out |-> [l \in Locales |->
                        IF l = MASTER THEN [OutNone EXCEPT !.status = "TypeError"]
                        ELSE OutNone],
             exit |-> 1]
       ELSE [files |-> fs, out |-> reports,
             exit |-> IF summary = {} THEN 1 ELSE 0]

\* checked and the reports are computed once, as main does.
check_main(fs) ==
    CHOOSE result \in
        {check_summary(fs, checked,
             [l \in Locales |->
                 IF l = MASTER
                 THEN [OutNone EXCEPT !.status = "master",
                                      !.keys = checked[l].keys,
                                      !.issues = checked[l].issues]
                 ELSE check_one_language(checked[MASTER].keys, checked[l])]) :
            checked \in {[l \in Locales |-> check_localization_file(fs[l], l)]}} :
        TRUE

----------------------------------------------------------------------------
(* The check command of localization_manager.py *)

manager_check_one(master_keys, content) ==
    LET lang_keys == manager_parse_localization_file(content)
        missing == KeysOf(master_keys) \ KeysOf(lang_keys)
        extra == KeysOf(lang_keys) \ KeysOf(master_keys)
    IN IF lang_keys = <<>>
       THEN [OutNone EXCEPT !.status = "FILE NOT FOUND"]
       ELSE [OutNone EXCEPT
                !.status = IF missing # {} \/ extra # {} THEN "issues" ELSE "OK",
                !.keys = lang_keys,
                !.issues = (IF missing # {}
                            THEN <<[kind |-> "missing", line |-> 0, key |-> missing]>>
                            ELSE <<>>)
                           \o (IF extra # {}
                               THEN <<[kind |-> "extra", line |-> 0, key |-> extra]>>
                               ELSE <<>>)]

\* A check that rewrites the files it finds duplicates in.
check_all_files_repairing(fs) ==
    [files |-> remove_duplicates(fs).files,
     out |-> [l \in Locales |-> OutNone],
     exit |-> 0]

\* Returns not issues_found; main exits with 0 if that is true, else with 1.
check_all_files(fs) ==
    LET master_keys == manager_parse_localization_file(fs[MASTER])
        reports == [l \in Locales |->
                       IF l = MASTER
                       THEN [OutNone EXCEPT !.status = "master", !.keys = master_keys]
                       ELSE manager_check_one(master_keys, fs[l])]
        all_counts == {Len(reports[l].keys) :
                          l \in {m \in Locales \ {MASTER} :
                                    reports[m].status # "FILE NOT FOUND"}}
        issues_found ==
            \/ \E l \in Locales \ {MASTER} : reports[l].status # "OK"
            \/ Cardinality(all_counts) > 1
    IN [files |-> fs, out |-> reports,
        exit |-> IF issues_found THEN 1 ELSE 0]

----------------------------------------------------------------------------
(* fix_all_localizations.py: the remover of unused keys *)

\* keys[key] = value on an OrderedDict of values.
ValueSet(keys, key, value) ==
    LET at == {j \in 1..Len(keys) : keys[j].key = key}
    IN IF at = {} THEN Append(keys, [key |-> key, value |-> value])
       ELSE [keys EXCEPT ![Min(at)] = [key |-> key, value |-> value]]

\* re.finditer of the entry grammar over the whole content with re.MULTILINE:
\* a match starts at a line start at or after pos, the next search starts
\* where the match ended.  Key and white space may run over line ends.
RECURSIVE fix_finditer(_, _, _)
fix_finditer(content, pos, keys) ==
    LET starts == {q \in pos..Len(content) :
                      /\ q = 1 \/ content[q - 1] = NL
                      /\ entry_re(SubSeq(content, q, Len(content))).ok}
    IN IF starts = {} THEN keys
       ELSE CHOOSE result \in
                {fix_finditer(content, Min(starts) + m.end,
                              ValueSet(keys, m.key, m.value)) :
                    m \in {entry_re(SubSeq(content, Min(starts), Len(content)))}} :
                TRUE

\* Returns keys; the content it also returns is not used by main.
fix_parse_localization_file(content) == fix_finditer(content, 1, <<>>)

unused_keys ==
    <<<<"t", "a", "g", ".", "n", "o", "w">>,
      <<"t", "a", "g", ".", "m", "a", "x", "_", "n", "o", "w", "_", "c", "a", "r", "d", "s">>,
      <<"t", "a", "g", ".", "n", "o", "w", "_", "l", "i", "m", "i", "t", "_", "r", "e", "a", "c", "h", "e", "d">>,
      <<"t", "a", "g", ".", "n", "o", "w", "_", "l", "i", "m", "i", "t", "_", "m", "e", "s", "s", "a", "g", "e">>>>

\* any(quoted key in line for key in unused_keys)
has_unused_key(line) ==
    \E j \in 1..Len(unused_keys) : Contains(line, <<QT>> \o unused_keys[j] \o <<QT>>)

\* The loop with a flag that a dropped blank line does not clear.
RECURSIVE remove_unused_loop_flag_kept(_, _, _, _)
remove_unused_loop_flag_kept(lines, i, skip_next_empty, new_lines) ==
    IF i > Len(lines) THEN new_lines
    ELSE IF has_unused_key(lines[i])
    THEN remove_unused_loop_flag_kept(lines, i + 1, TRUE, new_lines)
    ELSE IF skip_next_empty /\ strip(lines[i]) = <<>>
    THEN remove_unused_loop_flag_kept(lines, i + 1, TRUE, new_lines)
    ELSE remove_unused_loop_flag_kept(lines, i + 1, FALSE, Append(new_lines, lines[i]))

RECURSIVE remove_unused_loop(_, _, _, _)
remove_unused_loop(lines, i, skip_next_empty, new_lines) ==
    IF i > Len(lines) THEN new_lines
    ELSE IF has_unused_key(lines[i])
    THEN remove_unused_loop(lines, i + 1, TRUE, new_lines)
    ELSE IF skip_next_empty /\ strip(lines[i]) = <<>>
    THEN remove_unused_loop(lines, i + 1, FALSE, new_lines)
    ELSE remove_unused_loop(lines, i + 1, FALSE, Append(new_lines, lines[i]))

\* The content written back.
remove_unused_keys(content) ==
    writelines(remove_unused_loop(readlines(content), 1, FALSE, <<>>))

\* The loop body of main for one locale directory.
fix_one(content) ==
    LET keys == fix_parse_localization_file(content)
        has_unused == \E j \in 1..Len(unused_keys) : unused_keys[j] \in KeysOf(keys)
    IN IF has_unused
       THEN [content |-> remove_unused_keys(content),
             report |-> [OutNone EXCEPT !.status = "cleaned", !.wrote = TRUE]]
       ELSE [content |-> content,
             report |-> [OutNone EXCEPT !.status = "already clean"]]

\* main: every <locale>.lproj directory with a Localizable.strings, the
\* master's among them.
fix_main(fs) ==
    LET r == [l \in Locales |->
                 IF fs[l] = NoFile THEN [content |-> NoFile, report |-> OutNone]
                 ELSE fix_one(fs[l])]
    IN [files |-> [l \in Locales |-> r[l].content],
        out |-> [l \in Locales |-> r[l].report]]

----------------------------------------------------------------------------
(* create_localizations.py: parse_english_file *)

\* s.strip(chars) and s.rstrip(chars)
rstrip_chars(s, chars) ==
    LET keep == {i \in 1..Len(s) : s[i] \notin chars}
    IN IF keep = {} THEN <<>> ELSE SubSeq(s, 1, Max(keep))

strip_chars(s, chars) ==
    LET keep == {i \in 1..Len(s) : s[i] \notin chars}
    IN IF keep = {} THEN <<>> ELSE SubSeq(s, Min(keep), Max(keep))

\* The starts of sub in s at or after position from.
Occurrences(s, sub, from) ==
    {i \in from..(Len(s) - Len(sub) + 1) : SubSeq(s, i, i + Len(sub) - 1) = sub}

\* s.split(sep): the parts between the occurrences of sep, found from the
\* left, none overlapping the one before.
RECURSIVE split(_, _)
split(s, sep) ==
    IF Occurrences(s, sep, 1) = {} THEN <<s>>
    ELSE CHOOSE parts \in
             {<<SubSeq(s, 1, at - 1)>> \o split(SubSeq(s, at + Len(sep), Len(s)), sep) :
                 at \in {Min(Occurrences(s, sep, 1))}} :
             TRUE

\* s.replace(old, empty string)
remove_all(s, old) == writelines(split(s, old))

MARK_DASH_PREFIX == <<"/", "/", " ", "M", "A", "R", "K", ":", " ", "-">>
KEY_VALUE_SEPARATOR == <<QT, SP, "=", SP, QT>>
GENERAL == <<"G", "e", "n", "e", "r", "a", "l">>

\* sections is the dict as the sequence of its items, [section, entries];
\* error is true once sections[current_section] has raised KeyError.
english_line(line, current_section, sections) ==
    LET stripped == strip(line)
        parts == split(stripped, KEY_VALUE_SEPARATOR)
        known == {j \in 1..Len(sections) : sections[j].section = current_section}
        same == [current_section |-> current_section, sections |-> sections,
                 error |-> FALSE]
    IN IF startswith(stripped, MARK_DASH_PREFIX)
       THEN LET marked == strip(remove_all(stripped, MARK_DASH_PREFIX))
            IN [current_section |-> marked,
                sections |-> IF \E j \in 1..Len(sections) : sections[j].section = marked
                             THEN sections
                             ELSE Append(sections, [section |-> marked, entries |-> <<>>]),
                error |-> FALSE]
       ELSE IF /\ startswith(stripped, <<QT>>)
               /\ Contains(stripped, KEY_VALUE_SEPARATOR)
               /\ Len(parts) = 2
       THEN IF known = {} THEN [same EXCEPT !.error = TRUE]
            ELSE [same EXCEPT !.sections[Min(known)].entries =
                     Append(@, [key |-> strip_chars(parts[1], {QT}),
                                value |-> strip_chars(rstrip_chars(parts[2], {";"}), {QT})])]
       ELSE same

RECURSIVE english_loop(_, _, _, _)
english_loop(lines, i, current_section, sections) ==
    IF i > Len(lines) THEN [error |-> FALSE, sections |-> sections]
    ELSE CHOOSE result \in
             {IF r.error THEN [error |-> TRUE, sections |-> <<>>]
              ELSE english_loop(lines, i + 1, r.current_section, r.sections) :
                 r \in {english_line(lines[i], current_section, sections)}} :
             TRUE

\* Returns sections, or raises KeyError (error is true) at an entry that
\* no section marker precedes.
parse_english_file(content) ==
    english_loop(readlines(content), 1, GENERAL, <<>>)

\* The key/value pairs of the sections in the order create_full_translation
\* walks them: section by section, the entries of a section in their order.
RECURSIVE english_entries(_)
english_entries(sections) ==
    IF sections = <<>> THEN <<>>
    ELSE Head(sections).entries \o english_entries(Tail(sections))

----------------------------------------------------------------------------
(* Parsing, writing the entries out and parsing again *)

Pairs(keys) ==
    [j \in 1..Len(keys) |-> [key |-> keys[j].key, value |-> keys[j].value]]

\* One entry line for every pair, as the generators write them.
generate_lines(pairs) ==
    writelines([j \in 1..Len(pairs) |->
                   format_entry(pairs[j].key, pairs[j].value) \o <<NL>>])

script_pairs(content) ==
    [error |-> FALSE, pairs |-> Pairs(parse_localization_file(content))]

checker_pairs(content) ==
    [error |-> FALSE, pairs |-> Pairs(check_localization_file(content, MASTER).keys)]

english_pairs(content) ==
    LET r == parse_english_file(content)
    IN IF r.error THEN [error |-> TRUE, pairs |-> <<>>]
       ELSE [error |-> FALSE, pairs |-> english_entries(r.sections)]

\* first is the parse of the master file, second the parse of the lines
\* generated from first.
round_trip(fs, first, second) ==
    [files |-> fs,
     out |-> [l \in Locales |->
                IF l # MASTER THEN OutNone
                ELSE [OutNone EXCEPT
                         !.status = IF first.error THEN "KeyError"
                                    ELSE IF second.error
                                    THEN "KeyError on the generated lines"
                                    ELSE "parsed twice",
                         !.keys = first.pairs,
                         !.reparsed = second.pairs]]]

----------------------------------------------------------------------------
(* Regular expressions of the auditors.  A pattern is a sequence of items;  *)
(* an item matches one character (Lit) or a run of characters of a class,  *)
(* as long as it can (Star, Plus), and may belong to the group.            *)

Lit(c) == [chars |-> {c}, neg |-> FALSE, min |-> 1, many |-> FALSE, group |-> FALSE]
Star(chars, neg) == [chars |-> chars, neg |-> neg, min |-> 0, many |-> TRUE, group |-> FALSE]
Plus(chars, neg) == [chars |-> chars, neg |-> neg, min |-> 1, many |-> TRUE, group |-> FALSE]
Group(item) == [item EXCEPT !.group = TRUE]

NoReMatch == [ok |-> FALSE, end |-> 0, group |-> <<>>]

\* How many characters from pos on the item can take.
Run(item, s, pos) ==
    LET stop == {j \in pos..(Len(s) + 1) :
                    j > Len(s) \/ ((s[j] \in item.chars) = item.neg)}
        run == Min(stop) - pos
    IN IF item.many THEN run ELSE IF run >= 1 THEN 1 ELSE 0

\* Of the tried lengths of an item the longest after which the rest of the
\* pattern matches.
Longest(tries, item, s, pos) ==
    LET good == {t \in tries : t.rest.ok}
        t == CHOOSE u \in good : \A v \in good : v.n <= u.n
    IN IF good = {} THEN NoReMatch
       ELSE [ok |-> TRUE, end |-> t.rest.end,
             group |-> (IF item.group THEN SubSeq(s, pos, pos + t.n - 1) ELSE <<>>)
                       \o t.rest.group]

\* The match of items k.. at pos that re prefers; end is the position after it.
RECURSIVE re_at(_, _, _, _)
re_at(items, k, s, pos) ==
    IF k > Len(items) THEN [ok |-> TRUE, end |-> pos, group |-> <<>>]
    ELSE CHOOSE result \in
             {Longest(tries, items[k], s, pos) :
                 tries \in {{[n |-> n, rest |-> re_at(items, k + 1, s, pos + n)] :
                               n \in items[k].min..Run(items[k], s, pos)}}} :
             TRUE

\* re.search(pattern, s) is not None
re_search(pattern, anchored, s) ==
    \E pos \in 1..(IF anchored THEN 1 ELSE Len(s) + 1) : re_at(pattern, 1, s, pos).ok

\* re.findall(pattern, s) for a pattern with one group: the group of every
\* match, the matches found from the left, each after the end of the one
\* before.
RECURSIVE re_findall(_, _, _)
re_findall(pattern, s, from) ==
    LET starts == {pos \in from..Len(s) : re_at(pattern, 1, s, pos).ok}
    IN IF starts = {} THEN <<>>
       ELSE CHOOSE result \in
                {<<m.group>> \o re_findall(pattern, s, m.end) :
                    m \in {re_at(pattern, 1, s, Min(starts))}} :
                TRUE

----------------------------------------------------------------------------
(* find_all_hardcoded_strings.py: LocalizationAuditor *)

swift_ui_patterns ==
    <<[type |-> "Text",
      pattern |-> <<Lit("T"), Lit("e"), Lit("x"), Lit("t"),
                    Star(Whitespace, FALSE), Lit("("),
                    Star(Whitespace, FALSE), Lit(QT),
                    Group(Plus({QT}, TRUE)), Lit(QT),
                    Star(Whitespace, FALSE), Lit(")")>>],
      [type |-> "Text with modifiers",
      pattern |-> <<Lit("T"), Lit("e"), Lit("x"), Lit("t"),
                    Star(Whitespace, FALSE), Lit("("),
                    Star(Whitespace, FALSE), Lit(QT),
                    Group(Plus({QT}, TRUE)), Lit(QT), Star({")"}, TRUE),
                    Lit(")")>>],
      [type |-> "Button label",
      pattern |-> <<Lit("B"), Lit("u"), Lit("t"), Lit("t"), Lit("o"),
                    Lit("n"), Star(Whitespace, FALSE), Lit("("),
                    Star(Whitespace, FALSE), Lit(QT),
                    Group(Plus({QT}, TRUE)), Lit(QT),
                    Star(Whitespace, FALSE), Lit(")")>>],
      [type |-> "Button with action",
      pattern |-> <<Lit("B"), Lit("u"), Lit("t"), Lit("t"), Lit("o"),
                    Lit("n"), Star(Whitespace, FALSE), Lit("("),
                    Star(Whitespace, FALSE), Lit(QT),
                    Group(Plus({QT}, TRUE)), Lit(QT), Star({"{"}, TRUE),
                    Lit("{")>>],
      [type |-> "Label",
      pattern |-> <<Lit("L"), Lit("a"), Lit("b"), Lit("e"), Lit("l"),
                    Star(Whitespace, FALSE), Lit("("),
                    Star(Whitespace, FALSE), Lit(QT),
                    Group(Plus({QT}, TRUE)), Lit(QT)>>],
      [type |-> "Navigation title",
      pattern |-> <<Lit("."), Lit("n"), Lit("a"), Lit("v"), Lit("i"),
                    Lit("g"), Lit("a"), Lit("t"), Lit("i"), Lit("o"),
                    Lit("n"), Lit("T"), Lit("i"), Lit("t"), Lit("l"),
                    Lit("e"), Star(Whitespace, FALSE), Lit("("),
                    Star(Whitespace, FALSE), Lit(QT),
                    Group(Plus({QT}, TRUE)), Lit(QT),
                    Star(Whitespace, FALSE), Lit(")")>>],
      [type |-> "Navigation bar title",
      pattern |-> <<Lit("."), Lit("n"), Lit("a"), Lit("v"), Lit("i"),
                    Lit("g"), Lit("a"), Lit("t"), Lit("i"), Lit("o"),
                    Lit("n"), Lit("B"), Lit("a"), Lit("r"), Lit("T"),
                    Lit("i"), Lit("t"), Lit("l"), Lit("e"),
                    Star(Whitespace, FALSE), Lit("("),
                    Star(Whitespace, FALSE), Lit(QT),
                    Group(Plus({QT}, TRUE)), Lit(QT),
                    Star(Whitespace, FALSE), Lit(")")>>],
      [type |-> "Alert title",
      pattern |-> <<Lit("."), Lit("a"), Lit("l"), Lit("e"), Lit("r"),
                    Lit("t"), Star(Whitespace, FALSE), Lit("("),
                    Star(Whitespace, FALSE), Lit(QT),
                    Group(Plus({QT}, TRUE)), Lit(QT)>>],
      [type |-> "Confirmation dialog",
      pattern |-> <<Lit("."), Lit("c"), Lit("o"), Lit("n"), Lit("f"),
                    Lit("i"), Lit("r"), Lit("m"), Lit("a"), Lit("t"),
                    Lit("i"), Lit("o"), Lit("n"), Lit("D"), Lit("i"),
                    Lit("a"), Lit("l"), Lit("o"), Lit("g"),
                    Star(Whitespace, FALSE), Lit("("),
                    Star(Whitespace, FALSE), Lit(QT),
                    Group(Plus({QT}, TRUE)), Lit(QT)>>],
      [type |-> "TextField placeholder",
      pattern |-> <<Lit("T"), Lit("e"), Lit("x"), Lit("t"), Lit("F"),
                    Lit("i"), Lit("e"), Lit("l"), Lit("d"),
                    Star(Whitespace, FALSE), Lit("("),
                    Star(Whitespace, FALSE), Lit(QT),
                    Group(Plus({QT}, TRUE)), Lit(QT)>>],
      [type |-> "SecureField placeholder",
      pattern |-> <<Lit("S"), Lit("e"), Lit("c"), Lit("u"), Lit("r"),
                    Lit("e"), Lit("F"), Lit("i"), Lit("e"), Lit("l"),
                    Lit("d"), Star(Whitespace, FALSE), Lit("("),
                    Star(Whitespace, FALSE), Lit(QT),
                    Group(Plus({QT}, TRUE)), Lit(QT)>>],
      [type |-> "Section header",
      pattern |-> <<Lit("h"), Lit("e"), Lit("a"), Lit("d"), Lit("e"),
                    Lit("r"), Lit(":"), Star(Whitespace, FALSE), Lit("{"),
                    Star(Whitespace, FALSE), Lit("T"), Lit("e"), Lit("x"),
                    Lit("t"), Star(Whitespace, FALSE), Lit("("),
                    Star(Whitespace, FALSE), Lit(QT),
                    Group(Plus({QT}, TRUE)), Lit(QT),
                    Star(Whitespace, FALSE), Lit(")")>>],
      [type |-> "Section footer",
      pattern |-> <<Lit("f"), Lit("o"), Lit("o"), Lit("t"), Lit("e"),
                    Lit("r"), Lit(":"), Star(Whitespace, FALSE), Lit("{"),
                    Star(Whitespace, FALSE), Lit("T"), Lit("e"), Lit("x"),
                    Lit("t"), Star(Whitespace, FALSE), Lit("("),
                    Star(Whitespace, FALSE), Lit(QT),
                    Group(Plus({QT}, TRUE)), Lit(QT),
                    Star(Whitespace, FALSE), Lit(")")>>],
      [type |-> "Picker label",
      pattern |-> <<Lit("P"), Lit("i"), Lit("c"), Lit("k"), Lit("e"),
                    Lit("r"), Star(Whitespace, FALSE), Lit("("),
                    Star(Whitespace, FALSE), Lit(QT),
                    Group(Plus({QT}, TRUE)), Lit(QT)>>],
      [type |-> "Menu label",
      pattern |-> <<Lit("M"), Lit("e"), Lit("n"), Lit("u"),
                    Star(Whitespace, FALSE), Lit("("),
                    Star(Whitespace, FALSE), Lit(QT),
                    Group(Plus({QT}, TRUE)), Lit(QT)>>],
      [type |-> "Tab item",
      pattern |-> <<Lit("."), Lit("t"), Lit("a"), Lit("b"), Lit("I"),
                    Lit("t"), Lit("e"), Lit("m"), Star(Whitespace, FALSE),
                    Lit("{"), Star({"}"}, TRUE), Lit("L"), Lit("a"),
                    Lit("b"), Lit("e"), Lit("l"), Star(Whitespace, FALSE),
                    Lit("("), Star(Whitespace, FALSE), Lit(QT),
                    Group(Plus({QT}, TRUE)), Lit(QT)>>],
      [type |-> "Accessibility label",
      pattern |-> <<Lit("."), Lit("a"), Lit("c"), Lit("c"), Lit("e"),
                    Lit("s"), Lit("s"), Lit("i"), Lit("b"), Lit("i"),
                    Lit("l"), Lit("i"), Lit("t"), Lit("y"), Lit("L"),
                    Lit("a"), Lit("b"), Lit("e"), Lit("l"),
                    Star(Whitespace, FALSE), Lit("("),
                    Star(Whitespace, FALSE), Lit(QT),
                    Group(Plus({QT}, TRUE)), Lit(QT),
                    Star(Whitespace, FALSE), Lit(")")>>],
      [type |-> "Accessibility hint",
      pattern |-> <<Lit("."), Lit("a"), Lit("c"), Lit("c"), Lit("e"),
                    Lit("s"), Lit("s"), Lit("i"), Lit("b"), Lit("i"),
                    Lit("l"), Lit("i"), Lit("t"), Lit("y"), Lit("H"),
                    Lit("i"), Lit("n"), Lit("t"), Star(Whitespace, FALSE),
                    Lit("("), Star(Whitespace, FALSE), Lit(QT),
                    Group(Plus({QT}, TRUE)), Lit(QT),
                    Star(Whitespace, FALSE), Lit(")")>>],
      [type |-> "Fatal error",
      pattern |-> <<Lit("f"), Lit("a"), Lit("t"), Lit("a"), Lit("l"),
                    Lit("E"), Lit("r"), Lit("r"), Lit("o"), Lit("r"),
                    Star(Whitespace, FALSE), Lit("("),
                    Star(Whitespace, FALSE), Lit(QT),
                    Group(Plus({QT}, TRUE)), Lit(QT),
                    Star(Whitespace, FALSE), Lit(")")>>],
      [type |-> "String with interpolation",
      pattern |-> <<Lit(QT), Group(Star({QT}, TRUE)), Group(Lit("\\")),
                    Group(Star({QT}, TRUE)), Lit(QT)>>]>>

skip_patterns ==
    <<[anchored |-> TRUE,
      pattern |-> <<Lit("p"), Lit("r"), Lit("i"), Lit("n"), Lit("t"),
                    Lit("(")>>],
      [anchored |-> TRUE,
      pattern |-> <<Lit("d"), Lit("e"), Lit("b"), Lit("u"), Lit("g"),
                    Lit("P"), Lit("r"), Lit("i"), Lit("n"), Lit("t"),
                    Lit("(")>>],
      [anchored |-> TRUE,
      pattern |-> <<Lit("N"), Lit("S"), Lit("L"), Lit("o"), Lit("g"),
                    Lit("(")>>],
      [anchored |-> FALSE,
      pattern |-> <<Lit("/"), Lit("/"), Star({NL}, TRUE), Lit(QT)>>],
      [anchored |-> FALSE,
      pattern |-> <<Lit("c"), Lit("a"), Lit("s"), Lit("e"),
                    Plus(Whitespace, FALSE), Lit(QT)>>],
      [anchored |-> FALSE,
      pattern |-> <<Lit("."), Lit("s"), Lit("y"), Lit("s"), Lit("t"),
                    Lit("e"), Lit("m"), Lit("N"), Lit("a"), Lit("m"),
                    Lit("e"), Lit(":"), Star(Whitespace, FALSE), Lit(QT)>>],
      [anchored |-> FALSE,
      pattern |-> <<Lit("I"), Lit("m"), Lit("a"), Lit("g"), Lit("e"),
                    Lit("("), Lit("s"), Lit("y"), Lit("s"), Lit("t"),
                    Lit("e"), Lit("m"), Lit("N"), Lit("a"), Lit("m"),
                    Lit("e"), Lit(":"), Star(Whitespace, FALSE), Lit(QT)>>],
      [anchored |-> FALSE,
      pattern |-> <<Lit("."), Lit("f"), Lit("o"), Lit("r"), Lit("e"),
                    Lit("g"), Lit("r"), Lit("o"), Lit("u"), Lit("n"),
                    Lit("d"), Lit("C"), Lit("o"), Lit("l"), Lit("o"),
                    Lit("r"), Lit("(")>>],
      [anchored |-> FALSE,
      pattern |-> <<Lit("."), Lit("f"), Lit("o"), Lit("n"), Lit("t"),
                    Lit("(")>>],
      [anchored |-> FALSE,
      pattern |-> <<Lit("D"), Lit("a"), Lit("t"), Lit("e"), Lit("F"),
                    Lit("o"), Lit("r"), Lit("m"), Lit("a"), Lit("t"),
                    Lit("t"), Lit("e"), Lit("r")>>],
      [anchored |-> FALSE,
      pattern |-> <<Lit("N"), Lit("u"), Lit("m"), Lit("b"), Lit("e"),
                    Lit("r"), Lit("F"), Lit("o"), Lit("r"), Lit("m"),
                    Lit("a"), Lit("t"), Lit("t"), Lit("e"), Lit("r")>>]>>

NS_LOCALIZED_STRING == <<"N", "S", "L", "o", "c", "a", "l", "i", "z", "e", "d", "S", "t", "r", "i", "n", "g">>

should_skip_line(line) ==
    \E j \in 1..Len(skip_patterns) :
        re_search(skip_patterns[j].pattern, skip_patterns[j].anchored, strip(line))

Digits == {"0", "1", "2", "3", "4", "5", "6", "7", "8", "9"}

\* The tests that drop a match: interpolation or a sum, a string of at most
\* two characters that is not OK or No, digits only, a format specifier alone.
dropped_match(match) ==
    \/ Contains(match, <<"\\", "(">>)
    \/ "+" \in {match[j] : j \in 1..Len(match)}
    \/ Len(match) <= 2 /\ match \notin {<<"O", "K">>, <<"N", "o">>}
    \/ match # <<>> /\ \A j \in 1..Len(match) : match[j] \in Digits
    \/ match \in {<<"%", "d">>, <<"%", "@">>, <<"%", ".", "1", "f">>, <<"%", "d", "x">>}

\* The findings of one pattern on one line.
pattern_findings(p, line, line_num) ==
    LET matches == SelectSeq(re_findall(p.pattern, line, 1),
                             LAMBDA match : ~dropped_match(match))
    IN [j \in 1..Len(matches) |->
            [line |-> line_num, string |-> matches[j], type |-> p.type]]

RECURSIVE line_findings(_, _, _, _)
line_findings(patterns, k, line, line_num) ==
    IF k > Len(patterns) THEN <<>>
    ELSE pattern_findings(patterns[k], line, line_num)
             \o line_findings(patterns, k + 1, line, line_num)

RECURSIVE auditor_loop(_, _)
auditor_loop(lines, i) ==
    IF i > Len(lines) THEN <<>>
    ELSE (IF should_skip_line(lines[i]) \/ Contains(lines[i], NS_LOCALIZED_STRING)
          THEN <<>>
          ELSE line_findings(swift_ui_patterns, 1, lines[i], i))
         \o auditor_loop(lines, i + 1)

\* self.hardcoded_strings after the scan of one Swift file.
auditor_find_hardcoded_strings(source) == auditor_loop(readlines(source), 1)

----------------------------------------------------------------------------
(* localization_manager.py, command audit *)

manager_patterns ==
    <<[type |-> "Text",
      pattern |-> <<Lit("T"), Lit("e"), Lit("x"), Lit("t"), Lit("("),
                    Lit(QT), Group(Plus({QT}, TRUE)), Lit(QT), Lit(")")>>],
      [type |-> "Alert title",
      pattern |-> <<Lit("."), Lit("a"), Lit("l"), Lit("e"), Lit("r"),
                    Lit("t"), Lit("("), Lit(QT), Group(Plus({QT}, TRUE)),
                    Lit(QT)>>],
      [type |-> "Button",
      pattern |-> <<Lit("B"), Lit("u"), Lit("t"), Lit("t"), Lit("o"),
                    Lit("n"), Lit("("), Lit(QT), Group(Plus({QT}, TRUE)),
                    Lit(QT)>>],
      [type |-> "Navigation title",
      pattern |-> <<Lit("."), Lit("n"), Lit("a"), Lit("v"), Lit("i"),
                    Lit("g"), Lit("a"), Lit("t"), Lit("i"), Lit("o"),
                    Lit("n"), Lit("T"), Lit("i"), Lit("t"), Lit("l"),
                    Lit("e"), Lit("("), Lit(QT), Group(Plus({QT}, TRUE)),
                    Lit(QT)>>],
      [type |-> "TextField placeholder",
      pattern |-> <<Lit("T"), Lit("e"), Lit("x"), Lit("t"), Lit("F"),
                    Lit("i"), Lit("e"), Lit("l"), Lit("d"), Lit("("),
                    Lit(QT), Group(Plus({QT}, TRUE)), Lit(QT)>>]>>

\* content.split of the line ends: the lines without their line ends, and a
\* last empty one after a final line end.
split_lines(content) == split(content, <<NL>>)

manager_pattern_findings(p, line, line_num) ==
    LET texts == SelectSeq(re_findall(p.pattern, line, 1),
                           LAMBDA text : /\ ~startswith(text, <<"s", "y", "s", "t", "e", "m">>)
                                         /\ ~startswith(text, <<"p", "r", "i", "n", "t">>))
    IN [j \in 1..Len(texts) |->
            [line |-> line_num, string |-> texts[j], type |-> p.type]]

RECURSIVE manager_line_findings(_, _, _)
manager_line_findings(k, line, line_num) ==
    IF k > Len(manager_patterns) THEN <<>>
    ELSE manager_pattern_findings(manager_patterns[k], line, line_num)
             \o manager_line_findings(k + 1, line, line_num)

RECURSIVE manager_audit_loop(_, _)
manager_audit_loop(lines, i) ==
    IF i > Len(lines) THEN <<>>
    ELSE (IF Contains(lines[i], NS_LOCALIZED_STRING) THEN <<>>
          ELSE manager_line_findings(1, lines[i], i))
         \o manager_audit_loop(lines, i + 1)

\* hardcoded_found after the scan of one Swift file.
find_hardcoded_strings(source) == manager_audit_loop(split_lines(source), 1)

\* The Swift files of the project (one of them), and the two report files:
\* localization_audit_report.json of find_all_hardcoded_strings.py and
\* localization_audit.json of the manager.
SwiftFiles == {"ContentView.swift"}
AuditCommands == {"audit script", "audit manager"}

\* key_pattern of load_existing_keys: a quoted text, white space, an equals sign.
KEY_PATTERN ==
    <<Lit(QT), Group(Plus({QT}, TRUE)), Lit(QT), Star(Whitespace, FALSE), Lit("=")>>

\* self.existing_keys: the quoted texts of the master file that an equals
\* sign follows; the empty set when the master file does not exist.
load_existing_keys(fs) ==
    IF fs[MASTER] = NoFile THEN {}
    ELSE LET found == re_findall(KEY_PATTERN, fs[MASTER], 1)
         IN {found[j] : j \in 1..Len(found)}

UpperCase == <<"A", "B", "C", "D", "E", "F", "G", "H", "I", "J", "K", "L", "M", "N", "O", "P", "Q", "R", "S", "T", "U", "V", "W", "X", "Y", "Z">>
LowerCase == <<"a", "b", "c", "d", "e", "f", "g", "h", "i", "j", "k", "l", "m", "n", "o", "p", "q", "r", "s", "t", "u", "v", "w", "x", "y", "z">>

\* str.lower() on the ASCII letters
lower(s) ==
    [j \in 1..Len(s) |->
        IF \E k \in 1..Len(UpperCase) : UpperCase[k] = s[j]
        THEN LowerCase[CHOOSE k \in 1..Len(UpperCase) : UpperCase[k] = s[j]]
        ELSE s[j]]

KeyChars == {LowerCase[k] : k \in 1..Len(LowerCase)} \cup Digits

\* re.sub of every run of characters outside a-z0-9 by one underscore
RECURSIVE sub_runs(_, _)
sub_runs(s, i) ==
    IF i > Len(s) THEN <<>>
    ELSE IF s[i] \in KeyChars THEN <<s[i]>> \o sub_runs(s, i + 1)
    ELSE IF i > 1 /\ s[i - 1] \notin KeyChars THEN sub_runs(s, i + 1)
    ELSE <<"_">> \o sub_runs(s, i + 1)

MaxSuggestedKey == 30

suggested_key(string) ==
    LET key == strip_chars(sub_runs(lower(string), 1), {"_"})
    IN <<"u", "i", ".">> \o SubSeq(key, 1, Min({Len(key), MaxSuggestedKey}))

\* report['recommended_keys']: one record for every string found, in sorted
\* order of the strings.
generate_report(found, existing_keys) ==
    LET strings == sorted({found[j].string : j \in 1..Len(found)})
    IN [j \in 1..Len(strings) |->
            [string |-> strings[j],
             suggested_key |-> suggested_key(strings[j]),
             already_localized |-> strings[j] \in existing_keys]]

\* main of find_all_hardcoded_strings.py: the scan, then the report file,
\* written whatever was found.  check_language_completeness takes max() of
\* the key counts of the locale files: with no locale file at all the
\* ValueError ends the run before the report.
auditor_main(fs, srcs, reps) ==
    LET found == auditor_find_hardcoded_strings(srcs["ContentView.swift"])
    IN IF \A l \in Locales : fs[l] = NoFile
       THEN [files |-> fs, out |-> [l \in Locales |-> OutNone],
             sources |-> srcs, findings |-> found,
             reports |-> reps, recommended |-> <<>>, exit |-> 1]
       ELSE [files |-> fs, out |-> [l \in Locales |-> OutNone],
             sources |-> srcs, findings |-> found,
             reports |-> [reps EXCEPT !["audit script"] = found],
             recommended |-> generate_report(found, load_existing_keys(fs)),
             exit |-> 0]

\* main of localization_manager.py, command audit: the report file is
\* written if something was found.
manager_audit_main(fs, srcs, reps) ==
    LET found == find_hardcoded_strings(srcs["ContentView.swift"])
    IN [files |-> fs, out |-> [l \in Locales |-> OutNone],
        sources |-> srcs, findings |-> found,
        reports |-> IF found # <<>> THEN [reps EXCEPT !["audit manager"] = found]
                    ELSE reps]

----------------------------------------------------------------------------
(* update_localizations.py *)

endswith(s, p) ==
    /\ Len(s) >= Len(p)
    /\ SubSeq(s, Len(s) - Len(p) + 1, Len(s)) = p

DEV_TOOLS_MARK == <<"/", "/", " ", "M", "A", "R", "K", ":", " ", "-", " ", "D", "e", "v", "e", "l", "o", "p", "e", "r", " ", "T", "o", "o", "l", "s">>

\* NEW_KEYS: one of its six keys, with its translations for the locales of
\* the model.  A character outside ASCII is written by its code point.
KEY_DEV_CLEAR_ICLOUD == <<"d", "e", "v", ".", "c", "l", "e", "a", "r", "_", "i", "c", "l", "o", "u", "d">>
NEW_KEYS ==
    <<[key |-> KEY_DEV_CLEAR_ICLOUD,
       translations |->
           [en |-> <<"C", "l", "e", "a", "r", " ", "i", "C", "l", "o", "u", "d", " ", "D", "a", "t", "a">>,
            fr |-> <<"E", "f", "f", "a", "c", "e", "r", " ", "l", "e", "s", " ", "d", "o", "n", "n", "U+00E9", "e", "s", " ", "i", "C", "l", "o", "u", "d">>,
            de |-> <<"i", "C", "l", "o", "u", "d", "-", "D", "a", "t", "e", "n", " ", "l", "U+00F6", "s", "c", "h", "e", "n">>]]>>

\* The entry lines of the block, a line for every key of new_keys.
RECURSIVE new_content_loop(_, _, _)
new_content_loop(new_keys, i, lang_code) ==
    IF i > Len(new_keys) THEN <<>>
    ELSE LET translations == new_keys[i].translations
             translation == IF lang_code \in DOMAIN translations
                            THEN translations[lang_code]
                            ELSE translations[MASTER]
         IN format_entry(new_keys[i].key, translation) \o <<NL>>
                \o new_content_loop(new_keys, i + 1, lang_code)

new_content(lang_code, new_keys) ==
    <<NL>> \o DEV_TOOLS_MARK \o <<NL>> \o new_content_loop(new_keys, 1, lang_code)

update_localization_file(content, lang_code, new_keys) ==
    IF content = NoFile
    THEN [content |-> content, wrote |-> FALSE, status |-> "file not found"]
    ELSE IF Contains(content, DEV_TOOLS_MARK)
    THEN [content |-> content, wrote |-> FALSE, status |-> "section already exists"]
    ELSE [content |-> IF endswith(rstrip(content), <<";">>)
                      THEN rstrip(content) \o new_content(lang_code, new_keys)
                      ELSE content \o new_content(lang_code, new_keys),
          wrote |-> TRUE, status |-> "updated"]

\* main of update_localizations.py: every locale, the master among them.
update_main(fs) ==
    CHOOSE result \in
        {[files |-> [l \in Locales |-> r[l].content],
          out |-> [l \in Locales |->
                     [OutNone EXCEPT !.status = r[l].status, !.wrote = r[l].wrote]]] :
            r \in {[l \in Locales |-> update_localization_file(fs[l], l, NEW_KEYS)]}} :
        TRUE

----------------------------------------------------------------------------
(* create_localizations.py *)

\* LANGUAGES: the last of its four languages, with one of its translations.
KEY_ACTION_OK == <<"a", "c", "t", "i", "o", "n", ".", "o", "k">>
LANGUAGES ==
    <<[code |-> "ja", name |-> <<"J", "a", "p", "a", "n", "e", "s", "e">>,
       translations |-> <<[key |-> KEY_ACTION_OK, value |-> <<"O", "K">>]>>]>>
CreatedLanguages == {LANGUAGES[i].code : i \in 1..Len(LANGUAGES)}

TODO_TRANSLATE == <<" ", "/", "/", " ", "T", "O", "D", "O", ":", " ", "T", "r", "a", "n", "s", "l", "a", "t", "e">>

header(name) ==
    <<"/", "*", " ", "\n", " ", " ", "L", "o", "c", "a", "l", "i", "z", "a", "b", "l", "e", ".", "s", "t", "r", "i", "n", "g", "s", " ", "(">> \o name \o <<")", "\n", " ", " ", "E", "c", "h", "o", "\n", " ", " ", "\n", " ", " ">>
        \o name \o <<" ", "l", "o", "c", "a", "l", "i", "z", "a", "t", "i", "o", "n", " ", "w", "i", "t", "h", " ", "c", "u", "l", "t", "u", "r", "a", "l", " ", "c", "o", "n", "t", "e", "x", "t", "\n", "*", "/", "\n", "\n">>

\* The line of one key: its translation, or the English value and the note.
create_entry(key, default_value, translations) ==
    LET at == {j \in 1..Len(translations) : translations[j].key = key}
    IN IF at # {}
       THEN format_entry(key, translations[Min(at)].value) \o <<NL>>
       ELSE format_entry(key, default_value) \o TODO_TRANSLATE \o <<NL>>

RECURSIVE create_entries(_, _, _)
create_entries(keys, i, translations) ==
    IF i > Len(keys) THEN <<>>
    ELSE create_entry(keys[i].key, keys[i].value, translations)
             \o create_entries(keys, i + 1, translations)

RECURSIVE create_sections(_, _, _)
create_sections(english_keys, i, translations) ==
    IF i > Len(english_keys) THEN <<>>
    ELSE MARK_DASH_PREFIX \o <<SP>> \o english_keys[i].section \o <<NL>>
             \o create_entries(english_keys[i].entries, 1, translations)
             \o <<NL>>
             \o create_sections(english_keys, i + 1, translations)

create_full_translation(lang_config, english_keys) ==
    header(lang_config.name)
        \o create_sections(english_keys, 1, lang_config.translations)

\* main of create_localizations.py.  Without the English file, or with an
\* entry before every section marker, parse_english_file raises and no file
\* is created.
create_main(fs) ==
    IF fs[MASTER] = NoFile
    THEN [files |-> fs, out |-> [l \in Locales |-> OutNone], exit |-> 1]
    ELSE CHOOSE result \in
        {IF r.error
         THEN [files |-> fs, out |-> [l \in Locales |-> OutNone], exit |-> 1]
         ELSE [files |-> fs,
               out |-> [l \in Locales |->
                          IF l = MASTER
                          THEN [OutNone EXCEPT !.status = "parsed",
                                               !.keys = english_entries(r.sections)]
                          ELSE OutNone],
               created |-> [c \in CreatedLanguages |->
                              create_full_translation(
                                  LANGUAGES[CHOOSE j \in 1..Len(LANGUAGES) :
                                                LANGUAGES[j].code = c],
                                  r.sections)],
               exit |-> 0] :
            r \in {parse_english_file(fs[MASTER])}} :
        TRUE

----------------------------------------------------------------------------
(* The files the commands are run on *)

MaxMasterEntries == 2
MaxTargetLines == 2
MaxFileLines == 3

KEY_A == <<"a">>
MARK_X == MARK_PREFIX \o <<SP, "X">>
MARK_Y == MARK_PREFIX \o <<SP, "Y">>

SeqsUpTo(S, n) == UNION {[1..k -> S] : k \in 0..n}

\* Every line followed by a line end.
FileOf(lines) == writelines([i \in 1..Len(lines) |-> lines[i] \o <<NL>>])

\* A master file: entries of the keys a and tag.name.placeholder, each alone
\* or with a section marker line before it.
MasterItems ==
    {<<<<"\"", "a", "\"", " ", "=", " ", "\"", "1", "\"", ";">>>>, <<<<"\"", "t", "a", "g", ".", "n", "a", "m", "e", ".", "p", "l", "a", "c", "e", "h", "o", "l", "d", "e", "r", "\"", " ", "=", " ", "\"", "T", "\"", ";">>>>,
     <<MARK_X, <<"\"", "a", "\"", " ", "=", " ", "\"", "1", "\"", ";">>>>,
     <<MARK_X, <<"\"", "t", "a", "g", ".", "n", "a", "m", "e", ".", "p", "l", "a", "c", "e", "h", "o", "l", "d", "e", "r", "\"", " ", "=", " ", "\"", "T", "\"", ";">>>>,
     <<MARK_Y, <<"\"", "t", "a", "g", ".", "n", "a", "m", "e", ".", "p", "l", "a", "c", "e", "h", "o", "l", "d", "e", "r", "\"", " ", "=", " ", "\"", "T", "\"", ";">>>>}

MasterFiles ==
    {FileOf(writelines(items)) : items \in SeqsUpTo(MasterItems, MaxMasterEntries)}

\* A target file: lines that hold the key a with a translation, or nothing.
TargetPool == {<<"\"", "a", "\"", " ", "=", " ", "\"", "9", "\"", ";">>, <<>>}

TargetFiles ==
    {FileOf(lines) : lines \in SeqsUpTo(TargetPool, MaxTargetLines)} \cup {NoFile}

\* Files for the parser and the duplicate removers: entries of one key with
\* different values and spacing, another key, a line without its semicolon,
\* a section marker, a blank line.
FilePool ==
    {<<"\"", "a", "\"", " ", "=", " ", "\"", "1", "\"", ";">>, <<"\"", "a", "\"", "=", "\"", "2", "\"", ";", " ", "/", "/", " ", "x">>, <<"\"", "b", "\"", " ", "=", " ", "\"", "2", "\"", ";">>, <<"\"", "a", "\"", " ", "=", " ", "\"", "1", "\"">>, MARK_X, <<>>}

AnyFiles == {FileOf(lines) : lines \in SeqsUpTo(FilePool, MaxFileLines)}

\* The master and the last locale take every file of their sets; the first
\* locale has no file, a file with the key a or a file with a key the master
\* does not have.
FirstTargetFiles ==
    {NoFile, FileOf(<<<<"\"", "a", "\"", " ", "=", " ", "\"", "9", "\"", ";">>>>), FileOf(<<<<"\"", "c", "\"", " ", "=", " ", "\"", "7", "\"", ";">>>>)}

\* No Swift source, nothing audited yet.
NoAudit ==
    /\ sources = [f \in SwiftFiles |-> <<>>]
    /\ findings = <<>>
    /\ report_files = [c \in AuditCommands |-> NoFile]
    /\ recommended_keys = <<>>
    /\ created_files = [c \in CreatedLanguages |-> NoFile]

InitSync ==
    /\ \E f \in MasterFiles, g \in FirstTargetFiles, h \in TargetFiles :
          files = [l \in Locales |-> IF l = MASTER THEN f
                                     ELSE IF l = LANGS[1] THEN g ELSE h]
    /\ before = files
    /\ op = "none"
    /\ prevOp = "none"
    /\ out = [l \in Locales |-> OutNone]
    /\ exit_status = 0
    /\ NoAudit

InitFiles ==
    /\ \E f \in AnyFiles, g \in {NoFile, FileOf(<<<<"\"", "a", "\"", " ", "=", " ", "\"", "9", "\"", ";">>, <<"\"", "a", "\"", " ", "=", " ", "\"", "9", "\"", ";">>>>)},
          h \in {NoFile, FileOf(<<<<"\"", "a", "\"", " ", "=", " ", "\"", "9", "\"", ";">>>>)} :
          files = [l \in Locales |-> IF l = MASTER THEN f
                                     ELSE IF l = LANGS[1] THEN g ELSE h]
    /\ before = files
    /\ op = "none"
    /\ prevOp = "none"
    /\ out = [l \in Locales |-> OutNone]
    /\ exit_status = 0
    /\ NoAudit

\* Files for the checkers.  A locale file: entries of the master's keys and of
\* a key the master may lack, an entry whose value is one of the English
\* indicators, a line with an equals sign that is no entry, the two lines
\* that open and close a block comment.
CheckPool ==
    {<<"\"", "a", "\"", " ", "=", " ", "\"", "9", "\"", ";">>,
     <<"\"", "c", "\"", " ", "=", " ", "\"", "7", "\"", ";">>,
     <<"\"", "b", "\"", " ", "=", " ", "\"", "A", "d", "d", "\"", ";">>,
     <<"a", " ", "=", " ", "\"", "1", "\"", ";">>,
     <<"/", "*">>,
     <<"*", "/">>}

CheckFiles == {FileOf(lines) : lines \in SeqsUpTo(CheckPool, MaxFileLines)}

CheckMasterFiles ==
    {NoFile,
     FileOf(<<<<"\"", "a", "\"", " ", "=", " ", "\"", "1", "\"", ";">>>>),
     FileOf(<<<<"\"", "a", "\"", " ", "=", " ", "\"", "1", "\"", ";">>, <<"\"", "b", "\"", " ", "=", " ", "\"", "2", "\"", ";">>>>)}

CheckLastFiles ==
    {NoFile, FileOf(<<<<"\"", "a", "\"", " ", "=", " ", "\"", "9", "\"", ";">>>>)}

InitCheck ==
    /\ \E f \in CheckMasterFiles, g \in CheckFiles, h \in CheckLastFiles :
          files = [l \in Locales |-> IF l = MASTER THEN f
                                     ELSE IF l = LANGS[1] THEN g ELSE h]
    /\ before = files
    /\ op = "none"
    /\ prevOp = "none"
    /\ out = [l \in Locales |-> OutNone]
    /\ exit_status = 0
    /\ NoAudit

\* Files for the remover of unused keys: an entry of a listed key, an entry
\* of another key, an empty line, a comment that quotes a listed key, a line
\* of white space.
UnusedPool ==
    {<<"\"", "t", "a", "g", ".", "n", "o", "w", "\"", " ", "=", " ", "\"", "1", "\"", ";">>,
     <<"\"", "a", "\"", " ", "=", " ", "\"", "1", "\"", ";">>,
     <<>>,
     <<"/", "/", " ", "\"", "t", "a", "g", ".", "n", "o", "w", "\"", " ", "o", "l", "d">>,
     <<" ">>}

UnusedFiles == {FileOf(lines) : lines \in SeqsUpTo(UnusedPool, MaxFileLines)}

InitUnused ==
    /\ \E f \in {FileOf(<<<<"\"", "a", "\"", " ", "=", " ", "\"", "1", "\"", ";">>>>), FileOf(<<<<"\"", "a", "\"", " ", "=", " ", "\"", "1", "\"", ";">>, <<"\"", "t", "a", "g", ".", "n", "o", "w", "\"", " ", "=", " ", "\"", "N", "o", "w", "\"", ";">>>>)},
          g \in UnusedFiles,
          h \in {NoFile, FileOf(<<<<"\"", "t", "a", "g", ".", "n", "o", "w", "\"", " ", "=", " ", "\"", "1", "\"", ";">>, <<>>>>)} :
          files = [l \in Locales |-> IF l = MASTER THEN f
                                     ELSE IF l = LANGS[1] THEN g ELSE h]
    /\ before = files
    /\ op = "none"
    /\ prevOp = "none"
    /\ out = [l \in Locales |-> OutNone]
    /\ exit_status = 0
    /\ NoAudit

\* Well-formed files: entries of three keys, one with a value that ends in
\* a semicolon and one with a value in escaped quotes, two section markers,
\* an empty line; no key on two lines.
WellFormedPool ==
    {<<"\"", "a", "\"", " ", "=", " ", "\"", "1", "\"", ";">>,
     <<"\"", "b", "\"", " ", "=", " ", "\"", "x", ";", "\"", ";">>,
     <<"\"", "c", "\"", " ", "=", " ", "\"", "\\", "\"", "q", "\\", "\"", "\"", ";">>,
     <<"/", "/", " ", "M", "A", "R", "K", ":", " ", "-", " ", "X">>,
     <<"/", "/", " ", "M", "A", "R", "K", ":", " ", "-", " ", "Y">>,
     <<>>}

WellFormedFiles ==
    {FileOf(lines) : lines \in
        {ls \in SeqsUpTo(WellFormedPool, MaxFileLines) :
            \A i, j \in 1..Len(ls) :
                (i # j /\ ls[i] = ls[j]) => ~entry_re(ls[i]).ok}}

InitRoundTrip ==
    /\ \E f \in WellFormedFiles :
          files = [l \in Locales |-> IF l = MASTER THEN f ELSE NoFile]
    /\ before = files
    /\ op = "none"
    /\ prevOp = "none"
    /\ out = [l \in Locales |-> OutNone]
    /\ exit_status = 0
    /\ NoAudit

\* Files with comments: a block comment around a line that has the shape of
\* an entry, alone and after an entry; a line comment that quotes an entry,
\* a section marker and an entry.
CommentFiles ==
    {FileOf(<<<<"/", "*">>, <<"\"", "a", "\"", " ", "=", " ", "\"", "1", "\"", ";">>, <<"*", "/">>>>),
     FileOf(<<<<"\"", "b", "\"", " ", "=", " ", "\"", "2", "\"", ";">>, <<"/", "*">>, <<"\"", "a", "\"", " ", "=", " ", "\"", "1", "\"", ";">>, <<"*", "/">>>>),
     FileOf(<<<<"/", "/", " ", "\"", "a", "\"", " ", "=", " ", "\"", "1", "\"", ";">>, MARK_X, <<"\"", "b", "\"", " ", "=", " ", "\"", "2", "\"", ";">>>>)}

InitComments ==
    /\ \E f \in CommentFiles, g \in CommentFiles \cup {NoFile} :
          files = [l \in Locales |-> IF l = MASTER THEN f
                                     ELSE IF l = LANGS[1] THEN g ELSE NoFile]
    /\ before = files
    /\ op = "none"
    /\ prevOp = "none"
    /\ out = [l \in Locales |-> OutNone]
    /\ exit_status = 0
    /\ NoAudit

\* Swift sources: a Text with a literal, a Text with an interpolation, a
\* Text that is localized, a print call, a Button with its action, and an
\* indented Text followed by a comment.  The master file is absent, or holds
\* one entry: of a dotted key, of a key with a text of the sources as its
\* value, or with that text as its key.
MaxSourceLines == 2

SourcePool ==
    {<<"T", "e", "x", "t", "(", "\"", "H", "e", "l", "l", "o", " ", "W", "o", "r", "l", "d", "\"", ")">>,
     <<"T", "e", "x", "t", "(", "\"", "\\", "(", "n", "a", "m", "e", ")", "\"", ")">>,
     <<"T", "e", "x", "t", "(", "N", "S", "L", "o", "c", "a", "l", "i", "z", "e", "d", "S", "t", "r", "i", "n", "g", "(", "\"", "k", "\"", ",", " ", "c", "o", "m", "m", "e", "n", "t", ":", " ", "\"", "\"", ")", ")">>,
     <<"p", "r", "i", "n", "t", "(", "\"", "H", "e", "l", "l", "o", " ", "W", "o", "r", "l", "d", "\"", ")">>,
     <<"B", "u", "t", "t", "o", "n", "(", "\"", "O", "K", "\"", ")", " ", "{">>,
     <<" ", " ", " ", " ", "T", "e", "x", "t", "(", " ", "\"", "H", "i", "\"", " ", ")", " ", "/", "/", " ", "\"", "x", "\"">>}

SourceFiles == {FileOf(lines) : lines \in SeqsUpTo(SourcePool, MaxSourceLines)}

AuditMasterFiles ==
    {NoFile,
     FileOf(<<<<"\"", "a", "\"", " ", "=", " ", "\"", "1", "\"", ";">>>>),
     FileOf(<<<<"\"", "g", "r", "e", "e", "t", "i", "n", "g", "\"", " ", "=", " ", "\"", "H", "e", "l", "l", "o", " ", "W", "o", "r", "l", "d", "\"", ";">>>>),
     FileOf(<<<<"\"", "H", "e", "l", "l", "o", " ", "W", "o", "r", "l", "d", "\"", " ", "=", " ", "\"", "B", "o", "n", "j", "o", "u", "r", "\"", ";">>>>)}

InitAudit ==
    /\ \E f \in AuditMasterFiles, src \in SourceFiles :
          /\ files = [l \in Locales |-> IF l = MASTER THEN f ELSE NoFile]
          /\ sources = [n \in SwiftFiles |-> src]
    /\ before = files
    /\ op = "none"
    /\ prevOp = "none"
    /\ out = [l \in Locales |-> OutNone]
    /\ exit_status = 0
    /\ findings = <<>>
    /\ report_files = [c \in AuditCommands |-> NoFile]
    /\ recommended_keys = <<>>
    /\ created_files = [c \in CreatedLanguages |-> NoFile]

\* A project for all the commands: a master with two keys, a first locale
\* without file or with one key on two lines, a last locale with an entry of
\* a listed unused key, and a Swift file with a Text.
InitTools ==
    /\ \E g \in {NoFile, FileOf(<<<<"\"", "a", "\"", " ", "=", " ", "\"", "9", "\"", ";">>, <<"\"", "a", "\"", " ", "=", " ", "\"", "9", "\"", ";">>>>)},
          src \in {FileOf(<<<<"T", "e", "x", "t", "(", "\"", "H", "e", "l", "l", "o", " ", "W", "o", "r", "l", "d", "\"", ")">>>>)} :
          /\ files = [l \in Locales |->
                         IF l = MASTER THEN FileOf(<<<<"\"", "a", "\"", " ", "=", " ", "\"", "1", "\"", ";">>, <<"\"", "b", "\"", " ", "=", " ", "\"", "2", "\"", ";">>>>)
                         ELSE IF l = LANGS[1] THEN g
                         ELSE FileOf(<<<<"\"", "t", "a", "g", ".", "n", "o", "w", "\"", " ", "=", " ", "\"", "1", "\"", ";">>, <<"\"", "a", "\"", " ", "=", " ", "\"", "9", "\"", ";">>>>)]
          /\ sources = [n \in SwiftFiles |-> src]
    /\ before = files
    /\ op = "none"
    /\ prevOp = "none"
    /\ out = [l \in Locales |-> OutNone]
    /\ exit_status = 0
    /\ findings = <<>>
    /\ report_files = [c \in AuditCommands |-> NoFile]
    /\ recommended_keys = <<>>
    /\ created_files = [c \in CreatedLanguages |-> NoFile]

\* Files for a sync followed by a check.  The master holds the key a, alone
\* or with a second key whose English value is Add or stands before a
\* comment; the first locale has no file, the key a, both keys, or a key the
\* master lacks; the last locale has the key a, or no entry.
ConvergeMasterFiles ==
    {FileOf(<<<<"\"", "a", "\"", " ", "=", " ", "\"", "1", "\"", ";">>>>),
     FileOf(<<<<"\"", "a", "\"", " ", "=", " ", "\"", "1", "\"", ";">>, <<"\"", "b", "\"", " ", "=", " ", "\"", "2", "\"", ";">>>>),
     FileOf(<<<<"\"", "a", "\"", " ", "=", " ", "\"", "1", "\"", ";">>, <<"\"", "b", "\"", " ", "=", " ", "\"", "A", "d", "d", "\"", ";">>>>),
     FileOf(<<<<"\"", "a", "\"", " ", "=", " ", "\"", "1", "\"", ";">>, <<"\"", "b", "\"", " ", "=", " ", "\"", "2", "\"", ";", " ", "/", "/", " ", "x">>>>)}

ConvergeFirstFiles ==
    {NoFile,
     FileOf(<<<<"\"", "a", "\"", " ", "=", " ", "\"", "9", "\"", ";">>>>),
     FileOf(<<<<"\"", "a", "\"", " ", "=", " ", "\"", "9", "\"", ";">>, <<"\"", "b", "\"", " ", "=", " ", "\"", "8", "\"", ";">>>>),
     FileOf(<<<<"\"", "c", "\"", " ", "=", " ", "\"", "7", "\"", ";">>>>)}

ConvergeLastFiles ==
    {FileOf(<<<<"\"", "a", "\"", " ", "=", " ", "\"", "9", "\"", ";">>>>), FileOf(<<<<>>>>)}

InitConverge ==
    /\ \E f \in ConvergeMasterFiles, g \in ConvergeFirstFiles, h \in ConvergeLastFiles :
          files = [l \in Locales |-> IF l = MASTER THEN f
                                     ELSE IF l = LANGS[1] THEN g ELSE h]
    /\ before = files
    /\ op = "none"
    /\ prevOp = "none"
    /\ out = [l \in Locales |-> OutNone]
    /\ exit_status = 0
    /\ NoAudit

\* Files for the commands that generate or extend a locale file.  The master
\* has a section with a key of LANGUAGES and another key, an entry before
\* every section marker, or a section with one key; the first locale has no
\* file, the key a, the Developer Tools section, or a comment at its end;
\* the last locale has the key a or no entry.
GenerateMasterFiles ==
    {FileOf(<<<<"/", "/", " ", "M", "A", "R", "K", ":", " ", "-", " ", "X">>, <<"\"", "a", "c", "t", "i", "o", "n", ".", "o", "k", "\"", " ", "=", " ", "\"", "O", "K", "\"", ";">>, <<"\"", "b", "\"", " ", "=", " ", "\"", "2", "\"", ";">>>>),
     FileOf(<<<<"\"", "a", "\"", " ", "=", " ", "\"", "1", "\"", ";">>>>),
     FileOf(<<<<"/", "/", " ", "M", "A", "R", "K", ":", " ", "-", " ", "X">>, <<"\"", "a", "\"", " ", "=", " ", "\"", "1", "\"", ";">>>>)}

GenerateFirstFiles ==
    {NoFile,
     FileOf(<<<<"\"", "a", "\"", " ", "=", " ", "\"", "9", "\"", ";">>>>),
     FileOf(<<<<"\"", "a", "\"", " ", "=", " ", "\"", "9", "\"", ";">>, <<"/", "/", " ", "M", "A", "R", "K", ":", " ", "-", " ", "D", "e", "v", "e", "l", "o", "p", "e", "r", " ", "T", "o", "o", "l", "s">>>>),
     FileOf(<<<<"\"", "a", "\"", " ", "=", " ", "\"", "9", "\"", ";", " ", "/", "/", " ", "x">>>>)}

GenerateLastFiles ==
    {FileOf(<<<<"\"", "a", "\"", " ", "=", " ", "\"", "9", "\"", ";">>>>), FileOf(<<<<>>>>)}

InitGenerate ==
    /\ \E f \in GenerateMasterFiles, g \in GenerateFirstFiles, h \in GenerateLastFiles :
          files = [l \in Locales |-> IF l = MASTER THEN f
                                     ELSE IF l = LANGS[1] THEN g ELSE h]
    /\ before = files
    /\ op = "none"
    /\ prevOp = "none"
    /\ out = [l \in Locales |-> OutNone]
    /\ exit_status = 0
    /\ NoAudit

----------------------------------------------------------------------------
(* The commands *)

Ran(name, result) ==
    \E r \in {result} :
    /\ files' = r.files
    /\ out' = r.out
    /\ before' = files
    /\ op' = name
    /\ prevOp' = op
    /\ exit_status' = IF "exit" \in DOMAIN r THEN r.exit ELSE 0
    /\ sources' = IF "sources" \in DOMAIN r THEN r.sources ELSE sources
    /\ findings' = IF "findings" \in DOMAIN r THEN r.findings ELSE <<>>
    /\ report_files' = IF "reports" \in DOMAIN r THEN r.reports ELSE report_files
    /\ recommended_keys' = IF "recommended" \in DOMAIN r THEN r.recommended ELSE <<>>
    /\ created_files' = IF "created" \in DOMAIN r THEN r.created ELSE created_files

\* python3 sync_localization_keys.py
SyncScript == Ran("sync script", sync_main(files))

\* python3 localization_manager.py sync
SyncManager == Ran("sync manager", sync_with_master(files))

\* python3 remove_duplicate_keys.py
CleanScript == Ran("clean script", dedup_main(files))

\* python3 localization_manager.py clean
CleanManager == Ran("clean manager", remove_duplicates(files))

\* parse_localization_file(file_path) of sync_localization_keys.py
ParseScript ==
    \E l \in Locales :
        Ran("parse script",
            [files |-> files,
             out |-> [m \in Locales |->
                        IF m = l
                        THEN [OutNone EXCEPT !.status = "parsed",
                                             !.keys = parse_localization_file(files[l])]
                        ELSE OutNone]])

\* LocalizationManager.parse_localization_file(file_path)
ParseManager ==
    \E l \in Locales :
        Ran("parse manager",
            [files |-> files,
             out |-> [m \in Locales |->
                        IF m = l
                        THEN [OutNone EXCEPT !.status = "parsed",
                                             !.keys = manager_parse_localization_file(files[l])]
                        ELSE OutNone]])

\* python3 check_localizations.py
CheckScript == Ran("check script", check_main(files))

\* python3 localization_manager.py check
CheckManager == Ran("check manager", check_all_files(files))

\* python3 fix_all_localizations.py
FixAll == Ran("fix all", fix_main(files))

\* parse_localization_file of sync_localization_keys.py, the entry lines
\* written from its result, and the same parser on those lines
RoundTripScript ==
    \E first \in {script_pairs(files[MASTER])} :
        Ran("round trip script",
            round_trip(files, first, script_pairs(generate_lines(first.pairs))))

\* the same with check_localization_file of check_localizations.py
RoundTripChecker ==
    \E first \in {checker_pairs(files[MASTER])} :
        Ran("round trip checker",
            round_trip(files, first, checker_pairs(generate_lines(first.pairs))))

\* the same with parse_english_file of create_localizations.py
RoundTripEnglish ==
    \E first \in {english_pairs(files[MASTER])} :
        Ran("round trip english",
            round_trip(files, first, english_pairs(generate_lines(first.pairs))))

\* check_localization_file(file_path, lang_code) of check_localizations.py
ParseChecker ==
    \E l \in Locales :
        Ran("parse checker",
            [files |-> files,
             out |-> [m \in Locales |->
                        IF m = l
                        THEN [OutNone EXCEPT !.status = "parsed",
                                             !.keys = check_localization_file(files[l], l).keys]
                        ELSE OutNone]])

\* python3 find_all_hardcoded_strings.py
AuditScript == Ran("audit script", auditor_main(files, sources, report_files))

\* python3 localization_manager.py audit
AuditManager == Ran("audit manager", manager_audit_main(files, sources, report_files))

\* A sync command and, directly after it, a check command: the files the
\* sync leaves, the report and the exit status of the check.
sync_then_check(synced, checked) ==
    [files |-> synced.files, out |-> checked.out, exit |-> checked.exit]

ConvergeCommands ==
    {"sync script, check script", "sync script, check manager",
     "sync manager, check script", "sync manager, check manager"}

SyncScriptCheckScript ==
    \E synced \in {sync_main(files)} :
        Ran("sync script, check script",
            sync_then_check(synced, check_main(synced.files)))

SyncScriptCheckManager ==
    \E synced \in {sync_main(files)} :
        Ran("sync script, check manager",
            sync_then_check(synced, check_all_files(synced.files)))

SyncManagerCheckScript ==
    \E synced \in {sync_with_master(files)} :
        Ran("sync manager, check script",
            sync_then_check(synced, check_main(synced.files)))

SyncManagerCheckManager ==
    \E synced \in {sync_with_master(files)} :
        Ran("sync manager, check manager",
            sync_then_check(synced, check_all_files(synced.files)))

\* The order in which the locales are taken.
WalkOrder == <<MASTER>> \o LANGS
WalkIndex(l) == CHOOSE i \in 1..Len(WalkOrder) : WalkOrder[i] = l

\* The files when the process stops while the command writes the file of
\* locale l: open(file_path, 'w') has emptied the file and the first n
\* characters of the new content have reached it; the locales taken before
\* are written, the locales after are not.
stopped_in_write(fs, written, l, n) ==
    [m \in Locales |->
        IF WalkIndex(m) < WalkIndex(l) THEN written[m]
        ELSE IF m = l THEN SubSeq(written[l], 1, n)
        ELSE fs[m]]

\* What a command leaves when the process is stopped (killed, power lost)
\* in the write of the file of locale l, n characters written.
stopped_run(fs, written, l, n) ==
    [files |-> stopped_in_write(fs, written, l, n),
     out |-> [m \in Locales |->
                IF m = l THEN [OutNone EXCEPT !.status = "stopped in write"]
                ELSE OutNone],
     exit |-> 1]

\* Nothing runs after a command that was stopped.
InterruptedSyncScript ==
    /\ op = "none"
    /\ \E r \in {sync_main(files)} :
          \E l \in {m \in Locales : r.out[m].wrote} :
              \E n \in 0..Len(r.files[l]) :
                  Ran("sync script", stopped_run(files, r.files, l, n))

InterruptedSyncManager ==
    /\ op = "none"
    /\ \E r \in {sync_with_master(files)} :
          \E l \in {m \in Locales : r.out[m].wrote} :
              \E n \in 0..Len(r.files[l]) :
                  Ran("sync manager", stopped_run(files, r.files, l, n))

InterruptedCleanScript ==
    /\ op = "none"
    /\ \E r \in {dedup_main(files)} :
          \E l \in {m \in Locales : r.out[m].wrote} :
              \E n \in 0..Len(r.files[l]) :
                  Ran("clean script", stopped_run(files, r.files, l, n))

InterruptedCleanManager ==
    /\ op = "none"
    /\ \E r \in {remove_duplicates(files)} :
          \E l \in {m \in Locales : r.out[m].wrote} :
              \E n \in 0..Len(r.files[l]) :
                  Ran("clean manager", stopped_run(files, r.files, l, n))

InterruptedFixAll ==
    /\ op = "none"
    /\ \E r \in {fix_main(files)} :
          \E l \in {m \in Locales : r.out[m].wrote} :
              \E n \in 0..Len(r.files[l]) :
                  Ran("fix all", stopped_run(files, r.files, l, n))

NextSync == SyncScript \/ SyncManager
NextAudit == AuditScript \/ AuditManager
NextRoundTrip == RoundTripScript \/ RoundTripChecker \/ RoundTripEnglish
NextUnused == FixAll
NextCheck == CheckScript \/ CheckManager
NextClean == CleanScript \/ CleanManager
NextParse == ParseScript \/ ParseManager \/ ParseChecker

SpecSync == InitSync /\ [][NextSync]_vars
SpecClean == InitFiles /\ [][NextClean]_vars
SpecParse == (InitFiles \/ InitComments) /\ [][NextParse]_vars
SpecCheck == InitCheck /\ [][NextCheck]_vars
SpecUnused == InitUnused /\ [][NextUnused]_vars
SpecRoundTrip == InitRoundTrip /\ [][NextRoundTrip]_vars
SpecAudit == InitAudit /\ [][NextAudit]_vars

\* Every command of the tool set, in any order, on one project.
NextTools == NextCheck \/ NextAudit \/ NextSync \/ NextClean \/ NextUnused
SpecTools == InitTools /\ [][NextTools]_vars

\* Every sync command followed by every check command.
NextConverge ==
    \/ SyncScriptCheckScript \/ SyncScriptCheckManager
    \/ SyncManagerCheckScript \/ SyncManagerCheckManager
SpecConverge == InitConverge /\ [][NextConverge]_vars

\* A command that is stopped while it writes; nothing runs after it.
NextInterrupted ==
    \/ InterruptedSyncScript \/ InterruptedSyncManager
    \/ InterruptedCleanScript \/ InterruptedCleanManager
    \/ InterruptedFixAll
SpecInterrupted == InitTools /\ [][NextInterrupted]_vars

\* python3 update_localizations.py
UpdateLocalizations == Ran("update localizations", update_main(files))

\* python3 create_localizations.py
CreateLocalizations == Ran("create localizations", create_main(files))

NextGenerate == UpdateLocalizations \/ CreateLocalizations \/ NextSync
SpecGenerate == InitGenerate /\ [][NextGenerate]_vars

Init ==
    \/ InitSync \/ InitFiles \/ InitComments \/ InitCheck \/ InitUnused
    \/ InitRoundTrip \/ InitAudit \/ InitTools \/ InitConverge \/ InitGenerate
Next ==
    \/ NextSync \/ NextClean \/ NextParse \/ NextCheck \/ NextUnused
    \/ NextRoundTrip \/ NextAudit \/ NextInterrupted \/ NextConverge
    \/ NextGenerate
Spec == Init /\ [][Next]_vars

----------------------------------------------------------------------------
(* Vocabulary of the properties *)

Targets == Locales \ {MASTER}
IsSync == op \in {"sync script", "sync manager"}
IsClean == op \in {"clean script", "clean manager"}
IsParse == op \in {"parse script", "parse manager"}

MasterKeys == parse_localization_file(files[MASTER])
KeysBefore(l) == parse_localization_file(before[l])
KeysAfter(l) == parse_localization_file(files[l])

IsPrefix(s, t) == Len(s) <= Len(t) /\ SubSeq(t, 1, Len(s)) = s

\* The positions of the entry lines of a sequence of lines, in order.
RECURSIVE EntryPositions(_, _)
EntryPositions(lines, i) ==
    IF i > Len(lines) THEN <<>>
    ELSE (IF entry_re(lines[i]).ok THEN <<i>> ELSE <<>>)
             \o EntryPositions(lines, i + 1)

\* The keys of the entry lines of a sequence of lines, one per entry line.
EntryKeys(lines) ==
    LET at == EntryPositions(lines, 1)
    IN [n \in 1..Len(at) |-> entry_re(lines[at[n]]).key]

\* The number of entry lines of a content that carry the key.
EntryCount(content, key) ==
    LET lines == readlines(content)
    IN Cardinality({i \in 1..Len(lines) :
                       entry_re(lines[i]).ok /\ entry_re(lines[i]).key = key})

----------------------------------------------------------------------------
(* C1 *)

\* C1: after a sync run, for every non-master locale whose file exists,
\* whatever it holds, the keys parsed from the target file include every key
\* parsed from the master file.
C1_TargetHasEveryMasterKey ==
    IsSync =>
        \A l \in Targets :
            files[l] # NoFile => KeysOf(MasterKeys) \subseteq KeysOf(KeysAfter(l))

----------------------------------------------------------------------------
(* C2 *)

----------------------------------------------------------------------------
(* C3 *)

\* C3: sync is append-only.  The content of a target file before sync,
\* without its trailing white space, is a prefix of its content after sync;
\* the entries parsed before are, in the same order and with the same value,
\* section and line, the first entries parsed after; a target without a file
\* still has none.
C3_AppendOnly ==
    IsSync =>
        \A l \in Targets :
            IF before[l] = NoFile THEN files[l] = NoFile
            ELSE /\ files[l] # NoFile
                 /\ IsPrefix(rstrip(before[l]), files[l])
                 /\ files[l] # before[l] =>
                       /\ IsPrefix(KeysBefore(l), KeysAfter(l))
                       /\ IsPrefix(EntryKeys(readlines(before[l])),
                                   EntryKeys(readlines(files[l])))

\* Sync appended to a file that had an entry followed by a blank line.
C3_Witness ==
    /\ IsSync
    /\ \E l \in Targets :
          /\ out[l].wrote
          /\ KeysBefore(l) # <<>>
          /\ Len(before[l]) >= Len(rstrip(before[l])) + 2

----------------------------------------------------------------------------
(* C4 *)

\* C4: the keys of the block that sync appends to a target file are exactly
\* the master keys absent from the target, in the order these keys have in
\* the master file.
C4_AppendedInMasterOrder ==
    IsSync =>
        \A l \in Targets :
            out[l].wrote =>
                EntryKeys(out[l].additions)
                    = missing_in_order(parse_localization_file(before[MASTER]),
                                       KeysBefore(l))

----------------------------------------------------------------------------
(* C5 *)

\* The value the parsed dict holds for a key.
ValueOf(keys, key) == InfoOf(keys, key).value

\* C5: after the sync script, a key that the target already had keeps its
\* value, and a key that sync appended to locale l has the translation of the
\* lookup table when the table has one for the key and l, and the English
\* value of the master otherwise.
C5_AppendedValues ==
    op = "sync script" =>
        \A l \in Targets :
            LET was == KeysBefore(l)
                now == KeysAfter(l)
                master == MasterKeys
            IN \A n \in 1..Len(now) :
                   now[n].value =
                       IF now[n].key \in KeysOf(was) THEN ValueOf(was, now[n].key)
                       ELSE IF HasTranslation(now[n].key, l)
                       THEN placeholders(now[n].key, l)
                       ELSE ValueOf(master, now[n].key)

\* The script ran on a master with the keys a and tag.name.placeholder: one
\* locale had a with its own value and keeps it, the other got a with the
\* English value, both got the translation of the placeholder key.
C5_Witness ==
    /\ op = "sync script"
    /\ KeysOf(MasterKeys) = {KEY_A, KEY_TAG_NAME}
    /\ ValueOf(MasterKeys, KEY_A) = <<"1">>
    /\ KeysOf(KeysBefore("fr")) = {KEY_A}
    /\ before["de"] # NoFile /\ KeysBefore("de") = <<>>
    /\ ValueOf(KeysAfter("fr"), KEY_A) = <<"9">>
    /\ ValueOf(KeysAfter("de"), KEY_A) = <<"1">>
    /\ ValueOf(KeysAfter("fr"), KEY_TAG_NAME) = placeholders(KEY_TAG_NAME, "fr")
    /\ ValueOf(KeysAfter("de"), KEY_TAG_NAME) = placeholders(KEY_TAG_NAME, "de")

----------------------------------------------------------------------------
(* C6 *)

\* The master section of the n-th key of an appended block, and of the key
\* appended before it (None before the first).
AppendedSection(l, n) ==
    InfoOf(MasterKeys, EntryKeys(out[l].additions)[n]).section

PreviousSection(l, n) == IF n = 1 THEN None ELSE AppendedSection(l, n - 1)

\* The lines of an appended block between its (n-1)-th and its n-th entry line.
LinesBefore(l, n) ==
    LET at == EntryPositions(out[l].additions, 1)
    IN SubSeq(out[l].additions, IF n = 1 THEN 1 ELSE at[n - 1] + 1, at[n] - 1)

\* C6: in the appended block a blank line and the section marker
\* text stand before an appended key exactly when the key's master section
\* differs from the section of the key appended before it.
C6_MarkerWheneverSectionDiffers ==
    IsSync =>
        \A l \in Targets :
            \A n \in 1..Len(EntryKeys(out[l].additions)) :
                IF AppendedSection(l, n) # PreviousSection(l, n)
                THEN /\ Len(LinesBefore(l, n)) = 2
                     /\ LinesBefore(l, n)[1] = <<>>
                     /\ startswith(LinesBefore(l, n)[2], MARK_PREFIX)
                     /\ LinesBefore(l, n)[2] = AppendedSection(l, n)
                ELSE LinesBefore(l, n) = <<>>

----------------------------------------------------------------------------
(* C7 *)

\* The keys that stand on an entry line of a content.
EntryKeySet(content) ==
    LET keys == EntryKeys(readlines(content))
    IN {keys[n] : n \in 1..Len(keys)}

\* C7: after duplicate removal every key that had an entry line in a file
\* has exactly one, and no other key has any.
C7_EveryKeyOnce ==
    IsClean =>
        \A l \in Locales :
            IF before[l] = NoFile THEN files[l] = NoFile
            ELSE /\ EntryKeySet(files[l]) = EntryKeySet(before[l])
                 /\ \A key \in EntryKeySet(before[l]) : EntryCount(files[l], key) = 1

\* Duplicate removal ran on a file where a key stood on more than one entry
\* line.
C7_Witness ==
    /\ IsClean
    /\ \E l \in Locales :
          /\ before[l] # NoFile
          /\ \E key \in EntryKeySet(before[l]) : EntryCount(before[l], key) >= 2
          /\ out[l].removed >= 1

----------------------------------------------------------------------------
(* C8 *)

\* The positions of the entry lines whose key stands on an earlier entry line.
LaterOccurrences(lines) ==
    {i \in 1..Len(lines) :
        /\ entry_re(lines[i]).ok
        /\ \E j \in 1..(i - 1) :
              entry_re(lines[j]).ok /\ entry_re(lines[j]).key = entry_re(lines[i]).key}

\* The lines from position i on, without those at the positions of drop.
RECURSIVE Without(_, _, _)
Without(lines, i, drop) ==
    IF i > Len(lines) THEN <<>>
    ELSE (IF i \in drop THEN <<>> ELSE <<lines[i]>>) \o Without(lines, i + 1, drop)

\* C8: the output of duplicate removal is the input without the entry lines
\* whose key already stood on an earlier entry line, every other line kept as
\* it was and in its order; the count is the number of lines left out; a
\* file without such a line is not written.
C8_DropsExactlyLaterOccurrences ==
    IsClean =>
        \A l \in Locales :
            IF before[l] = NoFile THEN files[l] = NoFile /\ ~out[l].wrote
            ELSE LET lines == readlines(before[l])
                     drop == LaterOccurrences(lines)
                 IN /\ readlines(files[l]) = Without(lines, 1, drop)
                    /\ out[l].removed = Cardinality(drop)
                    /\ out[l].wrote <=> drop # {}

\* A line was removed from a file that also holds a line that is no entry
\* after the first occurrence of the key, and another file was left alone.
C8_Witness ==
    /\ IsClean
    /\ \E l \in Locales :
          /\ out[l].removed >= 1
          /\ \E i \in 2..Len(readlines(files[l])) : ~entry_re(readlines(files[l])[i]).ok
    /\ \E l \in Locales : files[l] # NoFile /\ ~out[l].wrote

----------------------------------------------------------------------------
(* C9 *)

\* C9: duplicate removal is idempotent.  A run that follows a run removes no
\* line, writes no file and leaves every file as it was.
C9_CleanIdempotent ==
    (IsClean /\ prevOp \in {"clean script", "clean manager"}) =>
        /\ files = before
        /\ \A l \in Locales : out[l].removed = 0 /\ ~out[l].wrote

\* A second run; the first one took the second entry of the key a out of the
\* first locale's file (the file starts absent or with that entry twice).
C9_Witness ==
    /\ IsClean /\ prevOp \in {"clean script", "clean manager"}
    /\ files[LANGS[1]] # NoFile
    /\ EntryCount(files[LANGS[1]], KEY_A) = 1

----------------------------------------------------------------------------
(* C10 *)

\* The first entry line of a content that carries the key.
FirstOccurrence(content, key) ==
    LET lines == readlines(content)
    IN Min({i \in 1..Len(lines) :
               entry_re(lines[i]).ok /\ entry_re(lines[i]).key = key})

\* C10: for every key, the parse result holds the value of the first entry
\* line that carries the key, and the keys stand in the order of their first
\* entry lines.
C10_FirstOccurrenceWins ==
    IsParse =>
        \A l \in Locales :
            out[l].status = "parsed" /\ files[l] # NoFile =>
                LET keys == out[l].keys
                    lines == readlines(files[l])
                IN /\ \A n \in 1..Len(keys) :
                         keys[n].value
                             = entry_re(lines[FirstOccurrence(files[l], keys[n].key)]).value
                   /\ \A n, m \in 1..Len(keys) :
                         n < m => FirstOccurrence(files[l], keys[n].key)
                                      < FirstOccurrence(files[l], keys[m].key)

----------------------------------------------------------------------------
(* The checkers *)

IsCheck == op \in {"check script", "check manager"}

\* The locales the last check command looked into.
Checked == {l \in Locales : out[l].status \in {"master", "OK", "issues"}}

\* The keys of the entry lines of a file, line by line, as the checker's
\* grammar reads the stripped lines.
CheckEntryKeys(content) ==
    LET lines == readlines(content)
        at == {i \in 1..Len(lines) : check_re(strip(lines[i])).ok}
    IN [i \in at |-> check_re(strip(lines[i])).key]

KeysOnTwoLines(content) ==
    LET k == CheckEntryKeys(content)
    IN {k[i] : i \in {j \in DOMAIN k : \E m \in DOMAIN k : m # j /\ k[m] = k[j]}}

ReportedDuplicates(l) ==
    {out[l].issues[j].key :
        j \in {i \in 1..Len(out[l].issues) : out[l].issues[i].kind = "duplicate"}}

\* C11: after check_localizations.py has run, the keys it reports as
\* duplicates in a file are exactly the keys that stand on two or more
\* entry lines of that file.
C11_DuplicatesReported ==
    op = "check script" =>
        \A l \in Checked : ReportedDuplicates(l) = KeysOnTwoLines(files[l])

\* The keys of the entry lines of a file.
FileKeys(content) ==
    IF content = NoFile THEN {}
    ELSE LET k == CheckEntryKeys(content) IN {k[i] : i \in DOMAIN k}

MissingSet(l) == FileKeys(files[MASTER]) \ FileKeys(files[l])
ExtraSet(l) == FileKeys(files[l]) \ FileKeys(files[MASTER])
DuplicateSet(l) == KeysOnTwoLines(files[l])

Consistent(l) == MissingSet(l) = {} /\ ExtraSet(l) = {} /\ DuplicateSet(l) = {}

\* C12: after a check command, a locale file that was found is marked OK
\* exactly when no master key is missing from it, it has no key the master
\* lacks, and no key stands on two of its entry lines.
C12_OkIffConsistent ==
    IsCheck =>
        \A l \in Targets :
            out[l].status \in {"OK", "issues"} =>
                (out[l].status = "OK" <=> Consistent(l))

\* C13: a check command ends with a non-zero exit status whenever a locale
\* file that was found has a missing, an extra or a duplicated key, and with
\* exit status 0 when every locale file is found and consistent.
C13_ExitStatusTellsInconsistency ==
    IsCheck =>
        /\ (\E l \in Targets : files[l] # NoFile /\ ~Consistent(l))
               => exit_status # 0
        /\ (\A l \in Locales : files[l] # NoFile /\ (l \in Targets => Consistent(l)))
               => exit_status = 0

----------------------------------------------------------------------------
(* Locales without a file *)

\* What the last sync command does for one locale, run on that locale alone.
SyncAlone(m) ==
    IF op = "sync script"
    THEN update_language_file(m, parse_localization_file(before[MASTER]), before[m])
    ELSE sync_one_language(manager_parse_localization_file(before[MASTER]), before[m])

\* C14: a sync command does not stop at a locale that has no file: the locale
\* is skipped, no exception ends the run, and every other locale gets the
\* file and the report it would get were the locale without file not in the
\* list.
C14_MissingFileDoesNotAbort ==
    IsSync =>
        \A l \in Targets :
            before[l] = NoFile =>
                /\ files[l] = NoFile
                /\ out[l].status # "FileNotFoundError"
                /\ exit_status = 0
                /\ \A m \in Targets \ {l} :
                       /\ files[m] = SyncAlone(m).content
                       /\ out[m] = SyncAlone(m).report

----------------------------------------------------------------------------
(* The remover of unused keys *)

IsFix == op = "fix all"

\* C16: after fix_all_localizations.py has run, no line of a locale file
\* holds the quoted form of a listed key, be the line an entry or not.
C16_NoListedKeyLeft ==
    IsFix =>
        \A l \in Locales :
            files[l] # NoFile =>
                \A i \in 1..Len(readlines(files[l])) :
                    ~has_unused_key(readlines(files[l])[i])

\* A blank line that follows a line removed for a listed key.
BlankAfterRemoved(lines, i) ==
    /\ ~has_unused_key(lines[i])
    /\ strip(lines[i]) = <<>>
    /\ i > 1
    /\ has_unused_key(lines[i - 1])

\* The lines that hold no listed key and are no such blank line, in order.
LinesToKeep(lines) ==
    LET idx == SelectSeq([i \in 1..Len(lines) |-> i],
                         LAMBDA i : ~has_unused_key(lines[i])
                                    /\ ~BlankAfterRemoved(lines, i))
    IN [j \in 1..Len(idx) |-> lines[idx[j]]]

\* C17: a file that remove_unused_keys has rewritten holds, verbatim and in
\* their order, the lines of the file before that neither hold a listed
\* quoted key nor are a blank line right after a line that held one; nothing
\* else is dropped, so a second blank line in a row stays.
C17_DropsKeyLinesAndOneBlank ==
    IsFix =>
        \A l \in Locales :
            out[l].status = "cleaned" =>
                files[l] = writelines(LinesToKeep(readlines(before[l])))

\* A file was rewritten in which a blank line after a removed line was
\* dropped and the blank line after that one was kept.
C17_Witness ==
    /\ IsFix
    /\ \E l \in Locales :
          /\ out[l].status = "cleaned"
          /\ LET lines == readlines(before[l])
             IN \E i \in 2..(Len(lines) - 1) :
                   /\ BlankAfterRemoved(lines, i)
                   /\ strip(lines[i + 1]) = <<>>
                   /\ files[l] # <<>>

----------------------------------------------------------------------------
(* The round trip *)

IsRoundTrip ==
    op \in {"round trip script", "round trip checker", "round trip english"}

\* C18: for a well-formed file, each parser reads the entries, and the
\* lines generated from those entries parse, with the same parser, to the
\* same key/value pairs in the same order.
C18_ParseFormatRoundTrip ==
    IsRoundTrip =>
        /\ out[MASTER].status = "parsed twice"
        /\ out[MASTER].reparsed = out[MASTER].keys

----------------------------------------------------------------------------
(* Comments *)

IsParseAny == op \in {"parse script", "parse manager", "parse checker"}

\* Line i is a line comment, or a line of a block comment: the comment was
\* opened on a line at or before it and not closed before it.
InComment(lines, i) ==
    \/ startswith(strip(lines[i]), <<"/", "/">>) /\ ~startswith(strip(lines[i]), MARK_PREFIX)
    \/ \E j \in 1..i :
          /\ Contains(lines[j], <<"/", "*">>)
          /\ \A k \in j..(i - 1) : ~Contains(lines[k], <<"*", "/">>)

\* The file with every comment line emptied.
Uncommented(content) ==
    LET lines == readlines(content)
    IN writelines([i \in 1..Len(lines) |->
                      IF InComment(lines, i) THEN <<NL>> ELSE lines[i]])

ParseAs(content, l) ==
    IF op = "parse script" THEN parse_localization_file(content)
    ELSE IF op = "parse manager" THEN manager_parse_localization_file(content)
    ELSE check_localization_file(content, l).keys

\* C20: no entry of a parse result comes from a blank line, a section
\* marker or a line of a comment: the parsers return for a file what they
\* return for the file with its comment lines emptied, and every entry of
\* the result stands on a line that holds an entry.
C20_CommentsYieldNoEntry ==
    IsParseAny =>
        \A l \in Locales :
            (out[l].status = "parsed" /\ files[l] # NoFile) =>
                /\ out[l].keys = ParseAs(Uncommented(files[l]), l)
                /\ \A j \in 1..Len(out[l].keys) :
                      LET lines == readlines(files[l])
                          i == IF op = "parse checker" THEN out[l].keys[j].line
                               ELSE out[l].keys[j].line + 1
                      IN /\ strip(lines[i]) # <<>>
                         /\ ~startswith(strip(lines[i]), MARK_PREFIX)

----------------------------------------------------------------------------
(* The audit *)

IsAudit == op \in AuditCommands

TEXT_HELLO_WORLD == <<"T", "e", "x", "t", "(", "\"", "H", "e", "l", "l", "o", " ", "W", "o", "r", "l", "d", "\"", ")">>
TEXT_INTERPOLATION == <<"T", "e", "x", "t", "(", "\"", "\\", "(", "n", "a", "m", "e", ")", "\"", ")">>
HELLO_WORLD == <<"H", "e", "l", "l", "o", " ", "W", "o", "r", "l", "d">>

SourceLines == split_lines(sources["ContentView.swift"])

FindingsOn(i) == SelectSeq(findings, LAMBDA h : h.line = i)

\* C19: after an audit, a source line that reads Text, parenthesis, the
\* quoted literal Hello World, parenthesis, has exactly one finding, of type
\* Text with the string Hello World, and a line whose Text holds only an
\* interpolation has none.
C19_TextLiteralOneFinding ==
    IsAudit =>
        \A i \in 1..Len(SourceLines) :
            /\ SourceLines[i] = TEXT_HELLO_WORLD =>
                   FindingsOn(i) = <<[line |-> i, string |-> HELLO_WORLD, type |-> "Text"]>>
            /\ SourceLines[i] = TEXT_INTERPOLATION => FindingsOn(i) = <<>>

----------------------------------------------------------------------------
(* What the commands write *)

SyncCommands == {"sync script", "sync manager"}
CheckCommands == {"check script", "check manager"}
CleanCommands == {"clean script", "clean manager", "fix all"}

\* C15: a check or an audit changes no locale file and no Swift file; a
\* sync changes neither the master file nor a Swift file; a clean changes
\* no Swift file and no report file.
C15_CommandsWriteOnlyTheirFiles ==
    [][/\ op' \in CheckCommands \cup AuditCommands =>
              files' = files /\ sources' = sources
       /\ op' \in SyncCommands =>
              files'[MASTER] = files[MASTER] /\ sources' = sources
       /\ op' \in CleanCommands =>
              sources' = sources /\ report_files' = report_files]_vars

\* A check that found a locale with issues ran after a sync that wrote a
\* locale file, and the files are as the sync left them.
C15_Witness ==
    /\ op = "check manager"
    /\ prevOp \in SyncCommands
    /\ \E l \in Targets : out[l].status = "issues"
    /\ exit_status = 1
    /\ files = before
    /\ \E l \in Targets : Len(files[l]) > Len(FileOf(<<<<QT, "a", QT, SP, "=", SP, QT, "9", QT, ";">>, <<QT, "a", QT, SP, "=", SP, QT, "9", QT, ";">>>>))

----------------------------------------------------------------------------
(* C21 *)

\* The stripped text of the last section marker line before line i, None
\* when no section marker line stands before it.
NearestMarker(lines, i) ==
    LET markers == {j \in 1..(i - 1) : startswith(strip(lines[j]), MARK_PREFIX)}
    IN IF markers = {} THEN None ELSE strip(lines[Max(markers)])

\* C21: for every key of a parse result, the section of the entry is the
\* stripped text of the nearest section marker line before the first entry
\* line that carries the key, and is empty when no marker stands before it.
C21_SectionOfFirstOccurrence ==
    IsParse =>
        \A l \in Locales :
            (out[l].status = "parsed" /\ files[l] # NoFile) =>
                \A n \in 1..Len(out[l].keys) :
                    out[l].keys[n].section
                        = NearestMarker(readlines(files[l]),
                                        FirstOccurrence(files[l], out[l].keys[n].key))

----------------------------------------------------------------------------
(* C22 *)

\* Line i is a comment line: it starts a line comment, opens or closes a
\* block comment, or stands inside a block comment.
CommentLine(lines, i) ==
    \/ startswith(strip(lines[i]), <<"/", "/">>)
    \/ startswith(strip(lines[i]), <<"/", "*">>)
    \/ startswith(strip(lines[i]), <<"*", "/">>)
    \/ \E j \in 1..(i - 1) :
          /\ Contains(lines[j], <<"/", "*">>)
          /\ \A k \in j..(i - 1) : ~Contains(lines[k], <<"*", "/">>)

\* Line i is neither blank nor a comment, holds an equals sign and does not
\* match the checker's entry grammar.
Malformed(lines, i) ==
    /\ strip(lines[i]) # <<>>
    /\ ~CommentLine(lines, i)
    /\ Contains(lines[i], <<"=">>)
    /\ ~check_re(strip(lines[i])).ok

\* The format reports of the checker that carry line number i.
FormatReports(l, i) ==
    {n \in 1..Len(out[l].issues) :
        out[l].issues[n].kind = "invalid format" /\ out[l].issues[n].line = i}

\* C22: after check_localizations.py has run, every malformed line of a file
\* it read has exactly one format report with its line number, no key of the
\* result comes from that line, every entry line after it that is no comment
\* line has its key in the result, and no line that matches the entry
\* grammar has a format report.
C22_MalformedLinesReported ==
    op = "check script" =>
        \A l \in Checked :
            LET lines == readlines(files[l])
            IN \A i \in 1..Len(lines) :
                  /\ Malformed(lines, i) =>
                        /\ Cardinality(FormatReports(l, i)) = 1
                        /\ \A n \in 1..Len(out[l].keys) : out[l].keys[n].line # i
                        /\ \A j \in (i + 1)..Len(lines) :
                              (check_re(strip(lines[j])).ok /\ ~CommentLine(lines, j))
                                  => check_re(strip(lines[j])).key \in KeysOf(out[l].keys)
                  /\ check_re(strip(lines[i])).ok => FormatReports(l, i) = {}

\* The checker read a file with a malformed line and an entry line after it.
C22_Witness ==
    /\ op = "check script"
    /\ \E l \in Checked :
          LET lines == readlines(files[l])
          IN \E i, j \in 1..Len(lines) :
                /\ i < j
                /\ Malformed(lines, i)
                /\ FormatReports(l, i) # {}
                /\ check_re(strip(lines[j])).ok
                /\ check_re(strip(lines[j])).key \in KeysOf(out[l].keys)

----------------------------------------------------------------------------
(* C23 *)

\* The values of the entries of the master file.
MasterValues ==
    IF files[MASTER] = NoFile THEN {}
    ELSE LET lines == readlines(files[MASTER])
         IN {entry_re(lines[i]).value :
                i \in {j \in 1..Len(lines) : entry_re(lines[j]).ok}}

\* C23: in the report of find_all_hardcoded_strings.py the already_localized
\* flag of a string is true exactly when the string is the value of some
\* entry of the master file.
C23_FlagTellsMasterValue ==
    (op = "audit script" /\ exit_status = 0) =>
        \A n \in 1..Len(recommended_keys) :
            recommended_keys[n].already_localized
                <=> recommended_keys[n].string \in MasterValues

----------------------------------------------------------------------------
(* C24 *)

\* What the last command does when it runs to its end.
run_to_end(command, fs) ==
    IF command = "sync script" THEN sync_main(fs)
    ELSE IF command = "sync manager" THEN sync_with_master(fs)
    ELSE IF command = "clean script" THEN dedup_main(fs)
    ELSE IF command = "clean manager" THEN remove_duplicates(fs)
    ELSE fix_main(fs)

\* C24: when a sync, a duplicate removal or a removal of unused keys is
\* stopped while it writes the file of a locale, that file holds its whole
\* old content or its whole new content.
C24_WriteIsAtomic ==
    \A l \in Locales :
        out[l].status = "stopped in write" =>
            files[l] \in {before[l], run_to_end(op, before).files[l]}

----------------------------------------------------------------------------
(* C25 *)

\* The keys of a parse result that the master file does not hold.
ExtraKeys(keys) == KeysOf(keys) \ KeysOf(MasterKeys)

----------------------------------------------------------------------------
(* C26 *)

\* No key stands on two entry lines of the content.
DuplicateFree(content) ==
    LET keys == EntryKeys(readlines(content))
    IN \A i, j \in 1..Len(keys) : i # j => keys[i] # keys[j]

\* C26: when no key stands on two entry lines of a target file before a
\* sync run, none does after it, whatever the master file holds, a master
\* with a key on two entry lines included.
C26_SyncKeepsDuplicateFree ==
    IsSync =>
        \A l \in Targets :
            (before[l] # NoFile /\ DuplicateFree(before[l])) => DuplicateFree(files[l])

\* A sync has appended to a target without duplicates from a master that
\* holds a key on two entry lines.
C26_Witness ==
    /\ IsSync
    /\ ~DuplicateFree(files[MASTER])
    /\ \E l \in Targets :
          /\ before[l] # NoFile
          /\ DuplicateFree(before[l])
          /\ out[l].wrote
          /\ files[l] # before[l]

----------------------------------------------------------------------------
(* C27 *)

IsConverge == op \in ConvergeCommands

\* The target file as the claim wants it before the sync: it exists, holds
\* an entry, no key the master lacks, no key on two entry lines and no
\* malformed line.
CleanTarget(l) ==
    /\ before[l] # NoFile
    /\ FileKeys(before[l]) # {}
    /\ FileKeys(before[l]) \subseteq FileKeys(before[MASTER])
    /\ KeysOf(parse_localization_file(before[l]))
           \subseteq KeysOf(parse_localization_file(before[MASTER]))
    /\ KeysOnTwoLines(before[l]) = {}
    /\ DuplicateFree(before[l])
    /\ \A i \in 1..Len(readlines(before[l])) : ~Malformed(readlines(before[l]), i)

\* C27: a check run directly after a sync reports every such target file
\* without an issue, whatever the master holds.
C27_SyncThenCheckIsClean ==
    IsConverge =>
        \A l \in Targets : CleanTarget(l) => out[l].status = "OK"

----------------------------------------------------------------------------
(* C28 *)

GenerateCommands == SyncCommands \cup {"update localizations", "create localizations"}

\* The lines the last command wrote: the additions of a sync, the Developer
\* Tools block, the whole of a created file.
WrittenLines ==
    IF op \in SyncCommands
    THEN UNION {{out[l].additions[i] \o <<NL>> : i \in 1..Len(out[l].additions)} :
                   l \in {m \in Locales : out[m].wrote}}
    ELSE IF op = "update localizations"
    THEN UNION {{ls[i] : i \in 1..Len(ls)} :
                   ls \in {readlines(new_content(l, NEW_KEYS)) :
                              l \in {m \in Locales : out[m].wrote}}}
    ELSE IF op = "create localizations" /\ exit_status = 0
    THEN UNION {{ls[i] : i \in 1..Len(ls)} :
                   ls \in {readlines(created_files[c]) : c \in CreatedLanguages}}
    ELSE {}

\* The written lines that are entries: a quoted key opens the line.
WrittenEntryLines == {w \in WrittenLines : startswith(w, <<QT>>)}

\* C28: every entry line written by a sync, by update_localization_file or
\* by create_full_translation is matched by the sync parser, by the checker
\* (on the stripped line) and by the duplicate remover, with one key and one
\* value.
C28_ParsersAcceptWrittenLines ==
    \A w \in WrittenEntryLines :
        /\ entry_re(w).ok
        /\ check_re(strip(w)).ok
        /\ dup_re(w).ok
        /\ check_re(strip(w)).key = entry_re(w).key
        /\ dup_re(w).key = entry_re(w).key
        /\ check_re(strip(w)).value = entry_re(w).value

----------------------------------------------------------------------------
(* C29 *)

\* No missing key of the locale has a translation in the lookup table.
NoLookupApplies(l) ==
    \A key \in KeysOf(parse_localization_file(before[MASTER]))
                  \ KeysOf(parse_localization_file(before[l])) :
        ~HasTranslation(key, l)

\* What the other sync implementation leaves in the locale's file, run on
\* the files the last sync found.
OtherSyncContent(l) ==
    IF op = "sync manager"
    THEN update_language_file(l, parse_localization_file(before[MASTER]),
                              before[l]).content
    ELSE sync_one_language(manager_parse_localization_file(before[MASTER]),
                           before[l]).content

\* C29: after a sync, every locale the command reached, with no lookup
\* translation for a missing key, holds the content that the other sync
\* implementation writes from the same master and the same target file.
C29_SyncsAgree ==
    op \in SyncCommands =>
        \A l \in Locales \ {MASTER} :
            (out[l].status # "none" /\ NoLookupApplies(l))
                => files[l] = OtherSyncContent(l)

----------------------------------------------------------------------------
(* C30 *)

\* The keys the last sync appended to the locale's file.
AppendedKeys(l) ==
    IF out[l].wrote THEN {out[l].missing[n] : n \in 1..Len(out[l].missing)}
    ELSE {}

\* C30: after a sync, every appended key has, in the parse of the target
\* file, the section that it has in the parse of the master file; a master
\* key before every section marker has the empty section in both.
C30_AppendedKeysKeepSection ==
    op \in SyncCommands =>
        \A l \in Locales \ {MASTER} :
            \A key \in AppendedKeys(l) :
                InfoOf(KeysAfter(l), key).section = InfoOf(MasterKeys, key).section

====
